---- MODULE Spec2Model ----
(***************************************************************************)
(* Model of src/app.py: the polling/ingestion engine of the researcher     *)
(* platform.  State: the sqlite tables researchers, x_content and          *)
(* monitoring_tasks, the process-wide twitter_api and monitoring_service   *)
(* objects, the background worker threads and the foreground request       *)
(* handlers in flight.                                                     *)
(*                                                                         *)
(* The source binds the name TwitterAPI twice (lines 67 and 182).  Python  *)
(* keeps the later binding, so the object built at line 637 has the single *)
(* method get_user_tweets, no __init__ and no instance attributes; the     *)
(* functions of lines 88-180 are bound at module level, outside any class. *)
(* The comments at lines 65 and 183-185 describe the second block as a     *)
(* method to append to the first class.  The variable TwitterAPI holds the *)
(* method names of the class: ClassBuilt is what the interpreter builds,   *)
(* ClassDocumented is the class those comments describe.                   *)
(***************************************************************************)
EXTENDS Integers, Sequences, FiniteSets, TLC

\* ------------------------------------------------------------- bounds
NumAccounts == 2      \* rows of researchers
NumTweets   == 2      \* posts on the platform
BatchSize   == 2      \* stands for batch_size = 50 (line 580), scaled to the bounds
NumCycleAccounts == 3 \* rows of researchers where a cycle needs more than one batch
MaxSnapshot == 5      \* ids a snapshot is drawn from when the batch loop runs alone
MaxBatchSize == 3     \* batch sizes the batch loop is run with when it runs alone
NumSamples == 1       \* stands for the 5 sample researchers of load_sample_data
MaxWorkers  == 2      \* worker threads the model can hold
MaxTasks    == 2      \* rows of monitoring_tasks per researcher
MaxLikes    == 1      \* likes a tweet gathers on the platform
MaxRows     == 2      \* data rows of an uploaded sheet
MaxNameLen  == 2      \* characters of a name cell

\* ------------------------------------------------- program constants
platform_ceiling  == 50     \* min(max_results, 50)
cycle_max_results == 5      \* get_user_tweets(x_account, max_results=5)
fetch_max_results == 10     \* get_user_tweets(x_account, max_results=10)
test_max_results  == 3      \* get_user_tweets(username, max_results=3)
hist_max_results  == 50     \* data.get('max_results', 50)
default_interval  == 1800   \* the seeded monitoring_interval (line 410) and the fallback (523)
min_interval      == 300    \* if interval_seconds < 300
max_interval      == 604800 \* if interval_seconds > 604800
max_researcher_ids == 1000  \* if len(researcher_ids) > 1000
batch_sleep_seconds == 5    \* time.sleep(5) after a batch
backoff_seconds   == 60     \* time.sleep(60) in the handler of _monitoring_loop
import_batch_size == 100    \* batch_size = 100 in upload_excel

Ids      == 1..NumAccounts
MissingId == NumAccounts + 1          \* an id no row of researchers has
AllIds   == Ids \cup {MissingId}
TweetIds == 1..NumTweets
Workers  == 1..MaxWorkers
Starters == 1..2                     \* concurrent POST /api/start_monitoring requests
Caller == 0                          \* the caller whose toggle requests and responses are observed
SampleIds == 1..NumSamples           \* the rows load_sample_data inserts first
MaxId == NumAccounts + NumSamples    \* ids AUTOINCREMENT issues within the bounds

VARIABLES
    TWITTER_BEARER_TOKEN,   \* line 20: TRUE iff the environment sets the credential
    TwitterAPI,             \* the method names of the class bound to TwitterAPI
    twitter_api,            \* the instance: client, api_working, connection_tested
    platform,               \* how the external platform answers the next transport call
    transport,              \* [invoked, last]: whether any call reached tweepy.Client, and
                            \* the platform's answer to the latest one
    researchers,            \* id -> [is_monitoring, sample], for the ids that have a row;
                            \* sample: the name is one of reset_sample_data's sample_names
    sqlite_sequence,        \* the AUTOINCREMENT counter of researchers: the last id issued
    x_content,              \* committed rows of x_content, in insertion order
    monitoring_tasks,       \* researcher_id -> [active, inactive]: rows by status, for
                            \* every id a request can name
    running,                \* monitoring_service.running
    wpc, wsnap, wi, wj,     \* per worker thread: position, snapshot, batch offset, index in batch
    wcalled,                \* per worker thread: the account of its latest client call
    wlog,                   \* per worker thread: the iterations of the current cycle so far,
                            \* each [researcher_id, raised, empty, checked]
    spc,                    \* per start_monitoring_route request: position
    toggle,                 \* the latest start or stop request of the caller whose
                            \* responses are observed (Caller), and its response
    fetch,                  \* the fetch_researcher_content request in flight
    hist,                   \* the debug_fetch_historical_content request in flight
    test,                   \* the test_get_user_tweets_method / update_user_info request
    part,                   \* the batch loop run alone: [researchers, batch_size, i, batches]
    likes,                  \* the platform: the like_count it reports for a tweet now
    storage,                \* "ok", or "unreachable" while sqlite3 raises OperationalError
    system_settings,        \* setting_value of the row 'monitoring_interval', as an integer
    current_interval,       \* monitoring_service.current_interval
    setting,                \* the update_monitoring_settings request in flight, its response
                            \* and what get_monitoring_settings reads after it
    wsleep,                 \* per worker thread: the seconds of the time.sleep it is in
    call,                   \* get_user_tweets called alone: arguments, what is sent, result
    imp,                    \* the row loop of upload_excel run alone: sheet, counts, names
    ing                     \* two insert loops on x_content statement by statement: the
                            \* holder of the write lock and each loop's position and count

vars == <<TWITTER_BEARER_TOKEN, TwitterAPI, twitter_api, platform, transport,
          researchers, sqlite_sequence, x_content, monitoring_tasks, running,
          wpc, wsnap, wi, wj, wcalled, wlog, spc, toggle, fetch, hist, test, part,
          likes, storage, system_settings, current_interval, setting, wsleep, call, imp,
          ing>>

clientVars == <<TWITTER_BEARER_TOKEN, TwitterAPI>>
dbVars     == <<researchers, x_content, monitoring_tasks>>
workerVars == <<wpc, wsnap, wi, wj, wcalled, wlog, wsleep>>
settingsVars == <<system_settings, current_interval, setting>>
aloneVars  == <<part, call, imp, ing>>
envVars    == <<likes, storage>>

Min(a, b) == IF a < b THEN a ELSE b

\* ------------------------------------------------------------ the client class
ClassBuilt      == {"get_user_tweets"}
ClassDocumented == {"__init__", "test_connection", "ensure_connection",
                    "get_user_info", "get_user_tweets"}

\* TwitterAPI.__init__ (first definition): the instance attributes it sets.
TwitterAPI_init(token) ==
    [client |-> IF token THEN "Client" ELSE "None",
     api_working |-> FALSE,
     connection_tested |-> FALSE]

\* The instance of a class without __init__: no attribute is set; the record's
\* fields are placeholders that HasAttrs guards.
BareInstance == [client |-> "None", api_working |-> FALSE, connection_tested |-> FALSE]

HasAttrs(cls) == "__init__" \in cls

\* ------------------------------------------------------------ the platform
\* What the transport (tweepy.Client) does with a call while the platform is in
\* each mode: answers, answers without data (the requested handle is unknown;
\* the handle test_connection asks for exists), or raises.
PlatformModes == {"ok", "unknown", "Unauthorized", "NotFound", "TooManyRequests", "Exception"}

TransportRaises(mode) == IF mode \in {"ok", "unknown"} THEN "none" ELSE mode

\* Timelines the platform can answer with: tweet ids, newest (largest) first.
RECURSIVE Descending(_)
Descending(S) ==
    IF S = {} THEN <<>>
    ELSE LET m == CHOOSE x \in S : \A y \in S : y <= x
         IN <<m>> \o Descending(S \ {m})

Timelines == {Descending(S) : S \in SUBSET TweetIds}

Take(s, n) == SubSeq(s, 1, Min(n, Len(s)))

\* ------------------------------------------------------------ exception handling
\* An except chain is the sequence of the classes its clauses name; Python runs
\* the first clause whose class the raised exception is an instance of.  Every
\* tweepy exception is an Exception.
ClauseMatches(clause, exc) == clause = "Exception" \/ clause = exc

FirstMatch(clauses, exc) ==
    CHOOSE i \in 1..Len(clauses) :
        /\ ClauseMatches(clauses[i], exc)
        /\ \A k \in 1..(i - 1) : ~ClauseMatches(clauses[k], exc)

get_user_tweets_clauses == <<"Exception", "Unauthorized", "NotFound", "TooManyRequests", "Exception">>
get_user_info_clauses   == <<"Unauthorized", "NotFound", "TooManyRequests", "Exception">>

\* The clause that ran clears api_working iff it is the TooManyRequests clause.
AfterHandler(clauses, exc, api) ==
    IF clauses[FirstMatch(clauses, exc)] = "TooManyRequests"
    THEN [api EXCEPT !.api_working = FALSE]
    ELSE api

\* ------------------------------------------------------------ client methods
\* Each returns [exc, value, api, sent]: the exception that leaves the method
\* ("none" when it returns), the value returned, the instance afterwards, and
\* whether the transport was invoked.
Result(exc, value, api, sent) == [exc |-> exc, value |-> value, api |-> api, sent |-> sent]

\* The transport log after a client method that did (sent) or did not reach
\* tweepy.Client while the platform was in `mode`.
Transported(log, sent, mode) ==
    IF sent THEN [invoked |-> TRUE, last |-> mode] ELSE log

\* Mutant: max_results goes to the platform as the caller gave it.
SentMaxResults_Unclamped(max_results) == max_results

\* max_results=min(max_results, 50) (line 201): the cap sent to the platform.
SentMaxResults(max_results) == Min(max_results, platform_ceiling)

\* The call reaches self.client.get_users_tweets (lines 199-203) iff the instance
\* has a client and get_user answered with the user.
TweetsRequested(cls, api, mode) == HasAttrs(cls) /\ api.client # "None" /\ mode = "ok"

get_user_tweets(cls, api, mode, timeline, max_results) ==
    IF ~HasAttrs(cls) THEN Result("AttributeError", <<>>, api, FALSE)
    ELSE IF api.client = "None" THEN Result("none", <<>>, api, FALSE)
    ELSE IF TransportRaises(mode) # "none"
         THEN Result("none", <<>>,
                     AfterHandler(get_user_tweets_clauses, TransportRaises(mode), api), TRUE)
    ELSE IF mode = "unknown" THEN Result("none", <<>>, api, TRUE)
    ELSE Result("none", Take(timeline, SentMaxResults(max_results)), api, TRUE)

test_connection(api, mode) ==
    IF api.connection_tested THEN api
    ELSE IF api.client = "None"
         THEN [api EXCEPT !.api_working = FALSE, !.connection_tested = TRUE]
    ELSE IF TransportRaises(mode) # "none"
         THEN [api EXCEPT !.api_working = FALSE, !.connection_tested = TRUE]
    ELSE [api EXCEPT !.api_working = TRUE, !.connection_tested = TRUE]

ensure_connection(api, mode) ==
    IF ~api.connection_tested THEN test_connection(api, mode) ELSE api

\* value is <<"info">> for a profile and <<>> for None.
get_user_info(cls, api, mode) ==
    IF "get_user_info" \notin cls THEN Result("AttributeError", <<>>, api, FALSE)
    ELSE IF api.client = "None" THEN Result("none", <<>>, api, FALSE)
    ELSE LET tested == ensure_connection(api, mode)
             sent0  == ~api.connection_tested
         IN IF ~tested.api_working THEN Result("none", <<>>, tested, sent0)
            ELSE IF TransportRaises(mode) # "none"
                 THEN Result("none", <<>>,
                             AfterHandler(get_user_info_clauses, TransportRaises(mode), tested), TRUE)
            ELSE IF mode = "unknown" THEN Result("none", <<>>, tested, TRUE)
            ELSE Result("none", <<"info">>, tested, TRUE)

\* ------------------------------------------------------------ the store
\* Mutant: x_content without the UNIQUE constraint on tweet_id.
UniqueConflict_NoConstraint(rows, tweet_id) == FALSE

\* tweet_id TEXT UNIQUE: a row with this tweet_id conflicts with a stored one.
UniqueConflict(rows, tweet_id) == \E i \in DOMAIN rows : rows[i].tweet_id = tweet_id

\* The columns of a row of x_content that differ between tweets and between
\* observations of one tweet: tweet_id, researcher_id and likes_count (which
\* stands for the metrics and the text read with it).
Row(researcher_id, tweet_id, likes_count) ==
    [tweet_id |-> tweet_id, researcher_id |-> researcher_id, likes_count |-> likes_count]

\* Mutant: INSERT OR REPLACE, which deletes the conflicting row and inserts the
\* new one.
InsertOrIgnore_Replace(rows, row) ==
    LET Other(r) == r.tweet_id # row.tweet_id
    IN Append(SelectSeq(rows, Other), row)

\* INSERT OR IGNORE INTO x_content: the rows afterwards (rowcount is the growth).
InsertOrIgnore(rows, row) ==
    IF UniqueConflict(rows, row.tweet_id) THEN rows ELSE Append(rows, row)

\* Mutant: every INSERT OR IGNORE reports a row.
RowCount_AlwaysOne(before, after) == 1

\* cursor.rowcount of an INSERT OR IGNORE: the rows it added.
RowCount(before, after) == Len(after) - Len(before)

\* The insert loops of _process_researcher_batch and fetch_researcher_content:
\* every tweet through INSERT OR IGNORE, counting the rows with rowcount > 0.
RECURSIVE InsertTweets(_, _, _, _)
InsertTweets(rows, researcher_id, tweets, likes_count) ==
    IF tweets = <<>> THEN [rows |-> rows, new |-> 0]
    ELSE LET after == InsertOrIgnore(rows, Row(researcher_id, Head(tweets), likes_count))
             rest  == InsertTweets(after, researcher_id, Tail(tweets), likes_count)
         IN [rows |-> rest.rows,
             new |-> rest.new + (IF RowCount(rows, after) > 0 THEN 1 ELSE 0)]

\* SELECT id, name, x_account FROM researchers WHERE is_monitoring = 1
RECURSIVE Ascending(_)
Ascending(S) ==
    IF S = {} THEN <<>>
    ELSE LET m == CHOOSE x \in S : \A y \in S : x <= y
         IN <<m>> \o Ascending(S \ {m})

\* Mutant: the snapshot without its WHERE is_monitoring = 1.
SelectMonitoring_NoFilter(rs) == Ascending(DOMAIN rs)

SelectMonitoring(rs) == Ascending({id \in DOMAIN rs : rs[id].is_monitoring})

\* Mutant: the slice stops one element early.
Slice_Short(s, i, size) == SubSeq(s, i + 1, Min(i + size - 1, Len(s)))

\* The Python slice s[i:i + size] of a list.
Slice(s, i, size) == SubSeq(s, i + 1, Min(i + size, Len(s)))

\* Mutant: a batch holds the first researcher of its slice only.
Batch_One(snapshot, i) == Slice(snapshot, i, 1)

\* researchers[i:i + batch_size]
Batch(snapshot, i) == Slice(snapshot, i, BatchSize)

PartIdle == [researchers |-> <<>>, batch_size |-> BatchSize, i |-> 0, batches |-> <<>>]

\* The loop of _check_researchers_batch, lines 581-582, on its own: one step of
\* `for i in range(0, len(researchers), batch_size)` forms the batch at offset i.
check_researchers_range ==
    /\ part.i < Len(part.researchers)
    /\ part' = [part EXCEPT
                   !.batches = Append(@, Slice(part.researchers, part.i, part.batch_size)),
                   !.i = @ + part.batch_size]
    /\ UNCHANGED <<clientVars, call, imp, ing, envVars, settingsVars, sqlite_sequence, toggle, twitter_api, platform, transport, dbVars, running,
                   workerVars, spc, fetch, hist, test>>

\* The rows of monitoring_tasks of one researcher.
TaskRows(t) == t.active + t.inactive

\* A connection that holds sqlite's write lock: the historical request, from its
\* first INSERT to its commit.  Every other writer waits for it.
WriteLockFree == ~hist.in_txn

\* ------------------------------------------------------------ the worker thread
\* sqlite3.connect and cursor.execute raise sqlite3.OperationalError while the
\* database file cannot be opened or read.
StorageRaises == storage = "unreachable"

\* _monitoring_loop: the test of `while self.running`, on entry, after the
\* inter-cycle sleep and after the sleep of the handler (line 566).
monitoring_loop(w) ==
    /\ wpc[w] \in {"while", "cycle_sleep", "backoff"}
    /\ wpc' = [wpc EXCEPT ![w] = IF running THEN "check" ELSE "exited"]
    /\ wsleep' = [wsleep EXCEPT ![w] = 0]
    /\ UNCHANGED <<clientVars, aloneVars, envVars, settingsVars, sqlite_sequence, toggle, twitter_api, platform, transport, dbVars, running,
                   wsnap, wi, wj, wcalled, wlog, spc, fetch, hist, test>>

\* Mutant: the handler of _monitoring_loop ends the thread.
AfterCycleError_Exit == "exited"

\* except Exception (lines 564-566): the handler of _monitoring_loop logs, sleeps
\* 60 seconds and goes back to the test of the while loop.
AfterCycleError == "backoff"

\* Mutant: the sleep between cycles lasts the interval of the seed.
CycleSleep_Seeded(interval) == default_interval

\* time.sleep(self.current_interval), line 563: the attribute is read when the
\* call is made, and the sleep lasts the value read.
CycleSleep(interval) == interval

\* _check_researchers_batch, up to the first batch: the snapshot read.  An
\* exception of the connect or of the SELECT leaves the method and reaches the
\* handler of _monitoring_loop; with an empty snapshot the method returns and
\* _monitoring_loop sleeps self.current_interval.
check_researchers_batch(w) ==
    /\ wpc[w] = "check"
    /\ IF StorageRaises
       THEN /\ wpc' = [wpc EXCEPT ![w] = AfterCycleError]
            /\ wsleep' = [wsleep EXCEPT ![w] = backoff_seconds]
            /\ UNCHANGED <<wsnap, wi, wj, wcalled, wlog>>
       ELSE /\ LET snapshot == SelectMonitoring(researchers)
               IN /\ wsnap' = [wsnap EXCEPT ![w] = snapshot]
                  /\ wpc' = [wpc EXCEPT ![w] = IF snapshot = <<>> THEN "cycle_sleep"
                                               ELSE "process"]
                  /\ wsleep' = [wsleep EXCEPT ![w] = IF snapshot = <<>>
                                                     THEN CycleSleep(current_interval)
                                                     ELSE 0]
            /\ wi' = [wi EXCEPT ![w] = 0]
            /\ wj' = [wj EXCEPT ![w] = 1]
            /\ wcalled' = [wcalled EXCEPT ![w] = 0]
            /\ wlog' = [wlog EXCEPT ![w] = <<>>]
    /\ UNCHANGED <<clientVars, aloneVars, envVars, settingsVars, sqlite_sequence, toggle, twitter_api, platform, transport, dbVars, running,
                   spc, fetch, hist, test>>

\* Mutant: the loop of _process_researcher_batch has no handler.
Caught_Never(raised) == FALSE

\* Mutant: the loop's handler covers the client call only.
Caught_CallOnly(raised) == raised = "call"

\* except Exception (line 624): the handler inside the loop of
\* _process_researcher_batch catches whatever an iteration raises.
Caught(raised) == TRUE

\* Mutant: the iteration goes on to the inserts and the UPDATE whatever the call did.
Writes_Always(exc, tweets) == TRUE

\* Lines 590-593: the iteration reaches the inserts and the UPDATE of last_check
\* iff the call returned, and returned tweets (`if not tweets: continue`).
Writes(exc, tweets) == exc = "none" /\ tweets # <<>>

LogEntry(researcher_id, raised, empty, checked) ==
    [researcher_id |-> researcher_id, raised |-> raised, empty |-> empty, checked |-> checked]

\* One iteration of the loop of _process_researcher_batch: the client call, the
\* inserts, the UPDATE of last_check and the commit.  The call raises "call";
\* an insert that finds the write lock held until its timeout raises "store"
\* (sqlite3.OperationalError: database is locked).  An exception the loop's
\* handler does not catch ends _check_researchers_batch and is caught by
\* _monitoring_loop (line 564), which sleeps 60 seconds and starts the next cycle.  The
\* UPDATE of last_check changes no status, so it leaves the rows of
\* monitoring_tasks as counted here; the log entry records whether it ran on a row.
process_researcher(w) ==
    /\ wpc[w] = "process"
    /\ \E timeline \in Timelines :
         LET batch == Batch(wsnap[w], wi[w])
             researcher_id == batch[wj[w]]
             r == get_user_tweets(TwitterAPI, twitter_api, platform, timeline, cycle_max_results)
             stored == InsertTweets(x_content, researcher_id, r.value, likes)
             writes == Writes(r.exc, r.value)
             raised == IF r.exc # "none" THEN "call"
                       ELSE IF writes /\ (~WriteLockFree \/ StorageRaises) THEN "store"
                       ELSE "none"
             checked == /\ writes
                        /\ raised # "store"
                        /\ TaskRows(monitoring_tasks[researcher_id]) > 0
             entry == LogEntry(researcher_id, raised, r.value = <<>>, checked)
         IN /\ twitter_api' = r.api
            /\ transport' = Transported(transport, r.sent, platform)
            /\ wcalled' = [wcalled EXCEPT ![w] = researcher_id]
            /\ x_content' = IF writes /\ raised # "store" THEN stored.rows ELSE x_content
            /\ IF raised # "none" /\ ~Caught(raised)
               THEN /\ wlog' = [wlog EXCEPT ![w] = <<>>]
                    /\ wj' = wj
                    /\ wpc' = [wpc EXCEPT ![w] = AfterCycleError]
                    /\ wsleep' = [wsleep EXCEPT ![w] = backoff_seconds]
               ELSE /\ wlog' = [wlog EXCEPT ![w] = Append(@, entry)]
                    /\ IF wj[w] < Len(batch)
                       THEN wj' = [wj EXCEPT ![w] = wj[w] + 1] /\ UNCHANGED <<wpc, wsleep>>
                       ELSE /\ wj' = wj
                            /\ wpc' = [wpc EXCEPT ![w] = "batch_sleep"]
                            /\ wsleep' = [wsleep EXCEPT ![w] = batch_sleep_seconds]
    /\ UNCHANGED <<clientVars, aloneVars, envVars, settingsVars, sqlite_sequence, toggle, platform, researchers, monitoring_tasks, running,
                   wsnap, wi, spc, fetch, hist, test>>

\* The end of time.sleep(5) after a batch: the next batch, or the return to
\* _monitoring_loop and its time.sleep(self.current_interval).
batch_sleep(w) ==
    /\ wpc[w] = "batch_sleep"
    /\ IF wi[w] + BatchSize < Len(wsnap[w])
       THEN /\ wi' = [wi EXCEPT ![w] = wi[w] + BatchSize]
            /\ wj' = [wj EXCEPT ![w] = 1]
            /\ wpc' = [wpc EXCEPT ![w] = "process"]
            /\ wsleep' = [wsleep EXCEPT ![w] = 0]
            /\ wlog' = wlog
       ELSE /\ wpc' = [wpc EXCEPT ![w] = "cycle_sleep"]
            /\ wsleep' = [wsleep EXCEPT ![w] = CycleSleep(current_interval)]
            /\ wlog' = [wlog EXCEPT ![w] = <<>>]
            /\ UNCHANGED <<wi, wj>>
    /\ UNCHANGED <<clientVars, aloneVars, envVars, settingsVars, sqlite_sequence, toggle, twitter_api, platform, transport, dbVars, running,
                   wsnap, wcalled, spc, fetch, hist, test>>

\* ------------------------------------------------------------ start / stop routes
\* The researcher_ids lists a request can carry: the ids sqlite can bind.  A
\* list can also hold elements sqlite cannot bind (`bad`): nested lists or
\* objects of the JSON body, for which cursor.execute raises.
IdSets == (SUBSET DOMAIN monitoring_tasks) \ {{}}

\* The numbers of unbindable elements a list with these ids carries: none, one,
\* and as many as make a list of 1001 elements.  The failing requests are drawn
\* for the observed caller; the other callers send lists of ids alone.
Extras(s, researcher_ids) ==
    IF s = Caller
    THEN {0, 1, max_researcher_ids + 1 - Cardinality(researcher_ids)}
    ELSE {0}

\* The ids of a list whose UPDATE finds the database locked until its timeout,
\* drawn for the lists of the observed caller without an unbindable element.
Locked(s, researcher_ids, extra) ==
    IF s = Caller /\ extra = 0 THEN SUBSET researcher_ids ELSE {{}}

\* Mutant: no limit on the length of the list.
TooMany_Never(length) == FALSE

\* if len(researcher_ids) > 1000 (lines 867, 925): the request is answered 400.
TooMany(length) == length > max_researcher_ids

ToggleIdle == [op |-> "none", researcher_ids |-> {}, length |-> 0, bad |-> FALSE,
               status |-> 0, monitoring_count |-> 0, failed_ids |-> 0]

\* The response the caller s receives, kept when s is the observed caller.
Observed(s, log, op, researcher_ids, length, bad, status, monitoring_count, failed_ids) ==
    IF s = Caller
    THEN [op |-> op, researcher_ids |-> researcher_ids, length |-> length, bad |-> bad,
          status |-> status, monitoring_count |-> monitoring_count,
          failed_ids |-> failed_ids]
    ELSE log

\* Mutant: the failure of an id strikes its INSERT, after its UPDATE.
Flagged_All(researcher_ids, locked) == researcher_ids

\* The ids whose UPDATE of is_monitoring (line 883) runs to its end: those for
\* which it does not raise.
Flagged(researcher_ids, locked) == researcher_ids \ locked

\* The ids whose INSERT into monitoring_tasks (line 886) runs: the statement
\* follows the UPDATE in the same try, and the connection holds the write lock
\* once an UPDATE has run.
Tasked(researcher_ids, locked) == researcher_ids \ locked

\* Mutant: the route sets is_monitoring without inserting a task row.
ActivateTask_Skip(t) == t

\* INSERT OR REPLACE INTO monitoring_tasks (researcher_id, status, last_check)
\* VALUES (?, 'active', ...): no column of the row is unique but the
\* autoincremented id, so the statement always adds a row.
ActivateTask(t) == [t EXCEPT !.active = @ + 1]

\* Mutant: the UPDATE reaches one row of the researcher only.
DeactivateTasks_One(t) ==
    IF t.active > 0 THEN [active |-> t.active - 1, inactive |-> t.inactive + 1] ELSE t

\* UPDATE monitoring_tasks SET status = 'inactive' WHERE researcher_id = ?
DeactivateTasks(t) == [active |-> 0, inactive |-> TaskRows(t)]

\* start_monitoring_route, lines 861-917.  A list of more than 1000 elements is
\* answered 400 before the database is opened.  Otherwise one transaction sets
\* is_monitoring and inserts an active task row for every id; the UPDATE changes
\* no row for an id without a researcher, the INSERT adds its row all the same
\* (the connection does not enable foreign keys).  An element sqlite cannot bind
\* raises in its UPDATE, and so does an id whose UPDATE finds the database locked
\* until its timeout (`locked`); both inside the per-id try: the id is appended to failed_ids.  The response is built from success_count and failed_ids, and
\* monitoring_service.start_monitoring() is called before it.
start_monitoring_route(s) ==
    /\ spc[s] = "idle"
    /\ WriteLockFree
    /\ \E researcher_ids \in IdSets :
       \E extra \in Extras(s, researcher_ids) :
       \E locked \in Locked(s, researcher_ids, extra) :
         LET length == Cardinality(researcher_ids) + extra
             failed == extra + Cardinality(locked)
         IN IF TooMany(length)
            THEN /\ locked = {}
                 /\ toggle' = Observed(s, toggle, "start", researcher_ids, length,
                                       extra > 0, 400, 0, 0)
                 /\ UNCHANGED <<researchers, monitoring_tasks, spc>>
            ELSE /\ \A id \in researcher_ids : TaskRows(monitoring_tasks[id]) < MaxTasks
                 /\ researchers' = [id \in DOMAIN researchers |->
                        IF id \in Flagged(researcher_ids, locked)
                        THEN [researchers[id] EXCEPT !.is_monitoring = TRUE]
                        ELSE researchers[id]]
                 /\ monitoring_tasks' = [id \in DOMAIN monitoring_tasks |->
                        IF id \in Tasked(researcher_ids, locked)
                        THEN ActivateTask(monitoring_tasks[id])
                        ELSE monitoring_tasks[id]]
                 /\ toggle' = Observed(s, toggle, "start", researcher_ids, length,
                                       extra > 0, 200, length - failed, failed)
                 /\ spc' = [spc EXCEPT ![s] = "start_monitoring"]
    /\ UNCHANGED <<clientVars, aloneVars, envVars, settingsVars, sqlite_sequence, twitter_api, platform,
                   transport, x_content, running, workerVars, fetch, hist, test>>

\* MonitoringService.start_monitoring, line 551: the test of `not self.running`.
start_monitoring_test(s) ==
    /\ spc[s] = "start_monitoring"
    /\ spc' = [spc EXCEPT ![s] = IF running THEN "idle" ELSE "spawn"]
    /\ UNCHANGED <<clientVars, aloneVars, envVars, settingsVars, sqlite_sequence, toggle, twitter_api, platform, transport, dbVars, running,
                   workerVars, fetch, hist, test>>

\* MonitoringService.start_monitoring, lines 552-554: set the flag, create and
\* start the thread.
start_monitoring_spawn(s) ==
    /\ spc[s] = "spawn"
    /\ \E w \in Workers :
         /\ wpc[w] = "unborn"
         /\ \A v \in Workers : v < w => wpc[v] # "unborn"
         /\ wpc' = [wpc EXCEPT ![w] = "while"]
    /\ running' = TRUE
    /\ spc' = [spc EXCEPT ![s] = "idle"]
    /\ UNCHANGED <<clientVars, aloneVars, envVars, settingsVars, sqlite_sequence, toggle, twitter_api, platform, transport, dbVars,
                   wsnap, wi, wj, wcalled, wlog, wsleep, fetch, hist, test>>

\* stop_monitoring_route, lines 922-948.  A list of more than 1000 elements is
\* answered 400 before the database is opened.  Otherwise one transaction clears
\* is_monitoring and sets every task row of each id to inactive.  The loop has no
\* per-id try: an element sqlite cannot bind raises to the outer handler, which
\* rolls the whole transaction back and answers 500.
stop_monitoring_route(s) ==
    /\ WriteLockFree
    /\ \E researcher_ids \in IdSets :
       \E extra \in Extras(s, researcher_ids) :
         LET length == Cardinality(researcher_ids) + extra
             bad == extra > 0
         IN /\ toggle' = Observed(s, toggle, "stop", researcher_ids, length, bad,
                                  IF TooMany(length) THEN 400
                                  ELSE IF bad THEN 500 ELSE 200, 0, 0)
            /\ IF TooMany(length) \/ bad
               THEN UNCHANGED <<researchers, monitoring_tasks>>
               ELSE /\ researchers' = [id \in DOMAIN researchers |->
                           IF id \in researcher_ids
                           THEN [researchers[id] EXCEPT !.is_monitoring = FALSE]
                           ELSE researchers[id]]
                    /\ monitoring_tasks' = [id \in DOMAIN monitoring_tasks |->
                           IF id \in researcher_ids
                           THEN DeactivateTasks(monitoring_tasks[id])
                           ELSE monitoring_tasks[id]]
    /\ UNCHANGED <<clientVars, aloneVars, envVars, settingsVars, sqlite_sequence, twitter_api, platform,
                   transport, x_content, running, workerVars, spc, fetch, hist, test>>

\* ------------------------------------------------------------ removing and adding researchers
\* The rows left after DELETE FROM researchers for the ids in `gone`.  With
\* PRAGMA foreign_keys = ON on the connection, ON DELETE CASCADE (lines 364, 386)
\* removes the posts and the task rows of every researcher row deleted; without
\* the pragma sqlite does not enforce foreign keys and they stay.
DeleteResearchers(rs, posts, tasks, gone, foreign_keys) ==
    LET deleted == gone \cap DOMAIN rs
        Kept(row) == row.researcher_id \notin deleted
    IN [researchers |-> [id \in DOMAIN rs \ deleted |-> rs[id]],
        x_content |-> IF foreign_keys THEN SelectSeq(posts, Kept) ELSE posts,
        monitoring_tasks |-> IF foreign_keys
                             THEN [id \in DOMAIN tasks |->
                                     IF id \in deleted THEN [active |-> 0, inactive |-> 0]
                                     ELSE tasks[id]]
                             ELSE tasks]

\* INSERT INTO researchers without an id: AUTOINCREMENT issues the ids after the
\* last one issued; is_monitoring defaults to 0.
InsertResearchers(rs, sequence, n, sample) ==
    [id \in DOMAIN rs \cup (sequence + 1)..(sequence + n) |->
        IF id \in DOMAIN rs THEN rs[id] ELSE [is_monitoring |-> FALSE, sample |-> sample]]

\* delete_researcher, lines 773-779: PRAGMA foreign_keys = ON (line 776), then
\* the DELETE and the commit.
delete_researcher ==
    /\ WriteLockFree
    /\ \E researcher_id \in DOMAIN monitoring_tasks :
         LET after == DeleteResearchers(researchers, x_content, monitoring_tasks,
                                        {researcher_id}, TRUE)
         IN /\ researchers' = after.researchers
            /\ x_content' = after.x_content
            /\ monitoring_tasks' = after.monitoring_tasks
    /\ UNCHANGED <<clientVars, aloneVars, envVars, settingsVars, sqlite_sequence, toggle, twitter_api,
                   platform, transport, running, workerVars, spc, fetch, hist, test>>

\* reset_sample_data, lines 1916-1931: the researchers with a sample name are
\* deleted on a connection that never sets the foreign_keys pragma; then
\* load_sample_data_if_empty (lines 485-500) inserts the sample researchers
\* again iff no researcher is left.
reset_sample_data ==
    /\ WriteLockFree
    /\ LET gone == {id \in DOMAIN researchers : researchers[id].sample}
           after == DeleteResearchers(researchers, x_content, monitoring_tasks, gone, FALSE)
           reload == DOMAIN after.researchers = {}
       IN /\ reload => sqlite_sequence + NumSamples <= MaxId
          /\ researchers' = IF reload
                            THEN InsertResearchers(after.researchers, sqlite_sequence,
                                                   NumSamples, TRUE)
                            ELSE after.researchers
          /\ sqlite_sequence' = IF reload THEN sqlite_sequence + NumSamples
                                ELSE sqlite_sequence
          /\ x_content' = after.x_content
          /\ monitoring_tasks' = after.monitoring_tasks
    /\ UNCHANGED <<clientVars, aloneVars, envVars, settingsVars, toggle, twitter_api,
                   platform, transport, running, workerVars, spc, fetch, hist, test>>

\* upload_excel, lines 1160-1229, with insert_researcher_batch (lines 45-63): a
\* sheet of one row.  INSERT OR REPLACE names no id and no unique column, so it
\* inserts a new researcher.
upload_excel ==
    /\ WriteLockFree
    /\ sqlite_sequence < MaxId
    /\ researchers' = InsertResearchers(researchers, sqlite_sequence, 1, FALSE)
    /\ sqlite_sequence' = sqlite_sequence + 1
    /\ UNCHANGED <<clientVars, aloneVars, envVars, settingsVars, toggle, twitter_api, platform, transport,
                   x_content, monitoring_tasks, running, workerVars, spc, fetch, hist, test>>

\* ------------------------------------------------------------ the platform's metrics
\* Someone likes the tweets: the platform reports one like more from now on.
platform_like ==
    /\ likes < MaxLikes
    /\ likes' = likes + 1
    /\ UNCHANGED <<clientVars, aloneVars, storage, settingsVars, sqlite_sequence, toggle,
                   twitter_api, platform, transport, dbVars, running, workerVars, spc,
                   fetch, hist, test>>

\* ------------------------------------------------------------ the storage
\* The database file becomes unreadable (its volume goes away), or readable again.
storage_change ==
    /\ storage' = IF storage = "ok" THEN "unreachable" ELSE "ok"
    /\ UNCHANGED <<clientVars, aloneVars, likes, settingsVars, sqlite_sequence, toggle,
                   twitter_api, platform, transport, dbVars, running, workerVars, spc,
                   fetch, hist, test>>

\* ------------------------------------------------------------ monitoring settings
Setters == 1..2                      \* concurrent POST /api/monitoring_settings requests

\* str(interval_seconds) (line 538): the decimal digits of a positive integer,
\* and int(result[0]) (line 521): the integer of a string of digits.
RECURSIVE Str(_)
Str(n) == IF n < 10 THEN <<n>> ELSE Append(Str(n \div 10), n % 10)

RECURSIVE IntOf(_)
IntOf(digits) ==
    IF digits = <<>> THEN 0
    ELSE 10 * IntOf(SubSeq(digits, 1, Len(digits) - 1)) + digits[Len(digits)]

\* The values a request can carry as monitoring_interval; is_int is FALSE for a
\* JSON number with a fraction or a string of the same value.
IntervalInputs == {-1, 0, min_interval - 1, min_interval, 2 * default_interval,
                   max_interval, max_interval + 1}

SettingIdle == [c \in Setters |-> [pc |-> "idle", v |-> 0, is_int |-> TRUE, status |-> 0]]

\* Mutant: the validation without its lower bound.
Rejected_NoLower(v, is_int) == v = 0 \/ ~is_int \/ v > max_interval

\* Mutant: the validation without its upper bound.
Rejected_NoUpper(v, is_int) == v = 0 \/ ~is_int \/ v < min_interval

\* update_monitoring_settings, lines 1047-1054: the three tests that answer 400.
Rejected(v, is_int) == v = 0 \/ ~is_int \/ v < min_interval \/ v > max_interval

\* get_monitoring_interval (lines 512-527) and get_monitoring_settings (line
\* 1019): the stored setting read back as an integer.
get_monitoring_interval == IntOf(system_settings)

\* update_monitoring_settings, lines 1043-1054: the request and its validation.
update_monitoring_settings(c) ==
    /\ setting[c].pc = "idle"
    /\ \E v \in IntervalInputs, is_int \in BOOLEAN :
         setting' = [setting EXCEPT ![c] =
                        IF Rejected(v, is_int)
                        THEN [pc |-> "idle", v |-> v, is_int |-> is_int, status |-> 400]
                        ELSE [pc |-> "update", v |-> v, is_int |-> is_int, status |-> 0]]
    /\ UNCHANGED <<clientVars, aloneVars, envVars, system_settings, current_interval,
                   sqlite_sequence, toggle, twitter_api, platform, transport, dbVars,
                   running, workerVars, spc, fetch, hist, test>>

\* update_monitoring_interval, lines 531-540: the UPDATE of system_settings and
\* its commit; an exception answers 500 (lines 545-547, 1063).
update_monitoring_interval(c) ==
    /\ setting[c].pc = "update"
    /\ WriteLockFree
    /\ IF StorageRaises
       THEN /\ setting' = [setting EXCEPT ![c].pc = "idle", ![c].status = 500]
            /\ UNCHANGED system_settings
       ELSE /\ system_settings' = Str(setting[c].v)
            /\ setting' = [setting EXCEPT ![c].pc = "assign"]
    /\ UNCHANGED <<clientVars, aloneVars, envVars, current_interval,
                   sqlite_sequence, toggle, twitter_api, platform, transport, dbVars,
                   running, workerVars, spc, fetch, hist, test>>

\* update_monitoring_interval, lines 542-544, and the response (lines 1057-1061):
\* self.current_interval = interval_seconds.
update_current_interval(c) ==
    /\ setting[c].pc = "assign"
    /\ current_interval' = setting[c].v
    /\ setting' = [setting EXCEPT ![c].pc = "idle", ![c].status = 200]
    /\ UNCHANGED <<clientVars, aloneVars, envVars, system_settings,
                   sqlite_sequence, toggle, twitter_api, platform, transport, dbVars,
                   running, workerVars, spc, fetch, hist, test>>

\* ------------------------------------------------------------ get_user_tweets alone
CallIdle == [pc |-> "idle", max_results |-> 0, window |-> <<>>, timeline |-> <<>>,
             sent |-> FALSE, sent_max_results |-> 0, exc |-> "none", value |-> <<>>]

\* 'created_at': tweet.created_at.isoformat() (line 214).  The platform issues
\* tweet ids in the order of creation: a tweet's time is the rank of its id.
created_at(tweet_id) == tweet_id

\* The max_results a caller passes: the literals of the call sites and the
\* max_results of the body of debug_fetch_historical_content (line 1430).
MaxResultsInputs == {1, test_max_results, cycle_max_results, fetch_max_results,
                     platform_ceiling - 1, platform_ceiling, platform_ceiling + 1,
                     2 * platform_ceiling}

\* (start_time, end_time) as debug_fetch_historical_content builds them (lines
\* 1448-1453), or <<>> for a call without them.
Windows == {<<>>} \cup {w \in TweetIds \X (1..(NumTweets + 1)) : w[1] < w[2]}

\* get_user_tweets(username, max_results, start_time, end_time), lines 186-224:
\* the body reads neither start_time nor end_time.
get_user_tweets_window(cls, api, mode, timeline, max_results, window) ==
    get_user_tweets(cls, api, mode, timeline, max_results)

\* One call of get_user_tweets with max_results and a window, as at lines
\* 1484-1489.
get_user_tweets_call ==
    /\ call.pc = "ready"
    /\ LET r == get_user_tweets_window(TwitterAPI, twitter_api, platform, call.timeline,
                                       call.max_results, call.window)
           requested == TweetsRequested(TwitterAPI, twitter_api, platform)
       IN /\ twitter_api' = r.api
          /\ transport' = Transported(transport, r.sent, platform)
          /\ call' = [call EXCEPT !.pc = "done", !.sent = requested,
                         !.sent_max_results = IF requested
                                              THEN SentMaxResults(call.max_results) ELSE 0,
                         !.exc = r.exc, !.value = r.value]
    /\ UNCHANGED <<clientVars, part, imp, ing, envVars, settingsVars, sqlite_sequence, toggle,
                   platform, dbVars, running, workerVars, spc, fetch, hist, test>>

\* ------------------------------------------------------------ the row loop alone
\* A name cell as openpyxl returns it: None for a cell without a value, or a
\* string, here of blanks and letters.
NoneCell == <<"None">>
Strings == UNION {[1..n -> {" ", "a"}] : n \in 0..MaxNameLen}
Cells == {NoneCell} \cup Strings

\* The data rows of a sheet (every row with its six columns), by their name cell.
Sheets == UNION {[1..n -> Cells] : n \in 0..MaxRows}

\* `not row[1]`: None and the empty string are false.
Falsy(cell) == cell = NoneCell \/ cell = <<>>

\* str.strip(): the string without its leading and trailing blanks.
RECURSIVE LStrip(_)
LStrip(str) == IF str # <<>> /\ Head(str) = " " THEN LStrip(Tail(str)) ELSE str

RECURSIVE RStrip(_)
RStrip(str) ==
    IF str # <<>> /\ str[Len(str)] = " " THEN RStrip(SubSeq(str, 1, Len(str) - 1)) ELSE str

Strip(str) == RStrip(LStrip(str))

\* imported counts the rows insert_researcher_batch inserted (added_count), names
\* holds the name of every researcher inserted.
ImpIdle == [pc |-> "idle", sheet |-> <<>>, k |-> 1, batch_data |-> <<>>,
            imported |-> 0, skipped |-> 0, names |-> <<>>]

\* upload_excel, lines 1182-1211: one iteration of the row loop.  A row whose
\* name cell is false is skipped; otherwise its name is str(row[1]).strip() and
\* the row joins batch_data, which insert_researcher_batch (lines 45-63) inserts
\* when it holds batch_size rows.
upload_excel_row ==
    /\ imp.pc = "rows"
    /\ imp.k <= Len(imp.sheet)
    /\ LET cell == imp.sheet[imp.k]
           batch == Append(imp.batch_data, Strip(cell))
           next == [imp EXCEPT !.k = @ + 1]
       IN imp' = IF Falsy(cell) THEN [next EXCEPT !.skipped = @ + 1]
                 ELSE IF Len(batch) >= import_batch_size
                 THEN [next EXCEPT !.batch_data = <<>>, !.imported = @ + Len(batch),
                                   !.names = @ \o batch]
                 ELSE [next EXCEPT !.batch_data = batch]
    /\ UNCHANGED <<clientVars, part, call, ing, envVars, settingsVars, sqlite_sequence, toggle,
                   twitter_api, platform, transport, dbVars, running, workerVars, spc,
                   fetch, hist, test>>

\* upload_excel, lines 1223-1242: the remaining batch_data, the COMMIT and the
\* response with imported and skipped.
upload_excel_commit ==
    /\ imp.pc = "rows"
    /\ imp.k > Len(imp.sheet)
    /\ imp' = [imp EXCEPT !.pc = "done", !.batch_data = <<>>,
                          !.imported = @ + Len(imp.batch_data),
                          !.names = @ \o imp.batch_data]
    /\ UNCHANGED <<clientVars, part, call, ing, envVars, settingsVars, sqlite_sequence, toggle,
                   twitter_api, platform, transport, dbVars, running, workerVars, spc,
                   fetch, hist, test>>

\* ------------------------------------------------------------ two insert loops
\* The insert loop of _process_researcher_batch (lines 595-618) and the one of
\* fetch_researcher_content (lines 968-985), each on its own connection, one
\* statement at a time.
Ingesters == {"cycle", "fetch"}

IngIdle == [holder |-> "none", before |-> 0,
            p |-> [who \in Ingesters |->
                     [pc |-> "idle", researcher_id |-> 0, tweets |-> <<>>, k |-> 1,
                      counted |-> <<>>]]]

\* sqlite's write lock: the first INSERT of a connection takes it and the commit
\* gives it back; a connection gets it when no other connection holds it.
LockGrants(holder, who) == holder \in {"none", who}

\* Mutant: every INSERT OR IGNORE counts as new content.
IsNew_Always(rowcount) == TRUE

\* if cursor.rowcount > 0 (lines 610, 981): the statement added its row.
IsNew(rowcount) == rowcount > 0

\* One INSERT OR IGNORE of a loop with its test of cursor.rowcount (lines
\* 600-611, 972-982); counted holds the tweets the loop counted as new, so its
\* new_tweets_count or new_content_count is the length of counted.
ingest_insert(who) ==
    /\ ing.p[who].pc = "insert"
    /\ LockGrants(ing.holder, who)
    /\ LET me == ing.p[who]
           tweet_id == me.tweets[me.k]
           after == InsertOrIgnore(x_content, Row(me.researcher_id, tweet_id, likes))
       IN /\ x_content' = after
          /\ ing' = [ing EXCEPT
                        !.holder = who,
                        !.p[who] = [me EXCEPT
                            !.k = @ + 1,
                            !.counted = IF IsNew(RowCount(x_content, after))
                                        THEN Append(@, tweet_id) ELSE @,
                            !.pc = IF me.k = Len(me.tweets) THEN "commit" ELSE "insert"]]
    /\ UNCHANGED <<clientVars, part, call, imp, envVars, settingsVars, sqlite_sequence,
                   toggle, twitter_api, platform, transport, researchers,
                   monitoring_tasks, running, workerVars, spc, fetch, hist, test>>

\* conn.commit() (lines 619, 984): the rows stay and the write lock is free.
ingest_commit(who) ==
    /\ ing.p[who].pc = "commit"
    /\ ing' = [ing EXCEPT !.holder = "none", !.p[who].pc = "done"]
    /\ UNCHANGED <<clientVars, part, call, imp, envVars, settingsVars, sqlite_sequence,
                   toggle, twitter_api, platform, transport, dbVars, running, workerVars,
                   spc, fetch, hist, test>>

\* The INSERT of a connection that finds the write lock held until its timeout
\* raises sqlite3.OperationalError; the handler (lines 624-626, 996-999) ends
\* the loop with nothing inserted and nothing reported as new.
ingest_locked(who) ==
    /\ ing.p[who].pc = "insert"
    /\ ~LockGrants(ing.holder, who)
    /\ ing' = [ing EXCEPT !.p[who].pc = "failed"]
    /\ UNCHANGED <<clientVars, part, call, imp, envVars, settingsVars, sqlite_sequence,
                   toggle, twitter_api, platform, transport, dbVars, running, workerVars,
                   spc, fetch, hist, test>>

\* ------------------------------------------------------------ fetch-now
NoResponse == [status |-> 0, new_content_count |-> 0, total_fetched |-> 0,
               duplicate_count |-> 0, error_count |-> 0]

Response(status, new, total, dup, err) ==
    [status |-> status, new_content_count |-> new, total_fetched |-> total,
     duplicate_count |-> dup, error_count |-> err]

FetchIdle == [pc |-> "idle", researcher_id |-> 0, tweets |-> <<>>, likes_count |-> 0,
              resp |-> NoResponse]

\* fetch_researcher_content, lines 953-963: the lookup of the researcher.
fetch_researcher_lookup ==
    /\ fetch.pc = "idle"
    /\ \E researcher_id \in AllIds :
         fetch' = IF researcher_id \in DOMAIN researchers
                  THEN [FetchIdle EXCEPT !.pc = "call", !.researcher_id = researcher_id]
                  ELSE [FetchIdle EXCEPT !.researcher_id = researcher_id,
                                         !.resp = Response(404, 0, 0, 0, 0)]
    /\ UNCHANGED <<clientVars, aloneVars, envVars, settingsVars, sqlite_sequence, toggle, twitter_api, platform, transport, dbVars, running,
                   workerVars, spc, hist, test>>

\* fetch_researcher_content, lines 965-999: the client call, the inserts, the
\* commit and the response.
fetch_researcher_content ==
    /\ fetch.pc = "call"
    /\ \E timeline \in Timelines :
         LET r == get_user_tweets(TwitterAPI, twitter_api, platform, timeline, fetch_max_results)
             stored == InsertTweets(x_content, fetch.researcher_id, r.value, likes)
         IN /\ twitter_api' = r.api
            /\ transport' = Transported(transport, r.sent, platform)
            /\ IF r.exc # "none"
               THEN /\ x_content' = x_content
                    /\ fetch' = [fetch EXCEPT !.pc = "idle", !.resp = Response(500, 0, 0, 0, 0)]
               ELSE IF r.value = <<>>
               THEN /\ x_content' = x_content
                    /\ fetch' = [fetch EXCEPT !.pc = "idle", !.resp = Response(200, 0, 0, 0, 0)]
               ELSE /\ WriteLockFree
                    /\ x_content' = stored.rows
                    /\ fetch' = [fetch EXCEPT !.pc = "idle", !.tweets = r.value,
                                     !.likes_count = likes,
                                     !.resp = Response(200, stored.new, Len(r.value), 0, 0)]
    /\ UNCHANGED <<clientVars, aloneVars, envVars, settingsVars, sqlite_sequence, toggle, platform, researchers, monitoring_tasks, running,
                   workerVars, spc, hist, test>>

\* ------------------------------------------------------------ historical backfill
HistIdle == [pc |-> "idle", researcher_id |-> 0, tweets |-> <<>>, likes_count |-> 0, k |-> 1,
             pending |-> <<>>, in_txn |-> FALSE, resp |-> NoResponse]

\* The rows this connection sees: the committed ones and its own uncommitted ones.
HistView == x_content \o hist.pending

\* After tweet k of the save loop: the next tweet, or the commit.
HistAdvance(h) ==
    IF h.k < Len(h.tweets) THEN [h EXCEPT !.k = h.k + 1, !.pc = "select"]
    ELSE [h EXCEPT !.pc = "commit"]

\* debug_fetch_historical_content, lines 1426-1528: the lookup, the reads of
\* twitter_api.api_working and connection_tested, get_user_info, and up to three
\* get_user_tweets calls (the window, 90 days, no window).
debug_fetch_historical_start ==
    /\ hist.pc = "idle"
    /\ \E researcher_id \in AllIds, t1 \in Timelines, t23 \in Timelines :
         LET info == get_user_info(TwitterAPI, twitter_api, platform)
             r1 == get_user_tweets(TwitterAPI, info.api, platform, t1, hist_max_results)
             \* the second and third call run only after an empty answer; the
             \* first of them that answers with tweets answers t23
             r2 == get_user_tweets(TwitterAPI, r1.api, platform, t23, hist_max_results)
             r3 == get_user_tweets(TwitterAPI, r2.api, platform, t23, hist_max_results)
             tweets == IF r1.value # <<>> THEN r1.value
                       ELSE IF r2.value # <<>> THEN r2.value ELSE r3.value
             api == IF r1.value # <<>> THEN r1.api
                    ELSE IF r2.value # <<>> THEN r2.api ELSE r3.api
             sent == info.sent \/ r1.sent
         IN IF researcher_id \notin DOMAIN researchers
            THEN /\ hist' = [HistIdle EXCEPT !.researcher_id = researcher_id,
                                             !.resp = Response(404, 0, 0, 0, 0)]
                 /\ UNCHANGED <<twitter_api, transport>>
            ELSE IF ~HasAttrs(TwitterAPI) \/ info.exc # "none" \/ r1.exc # "none"
            THEN /\ hist' = [HistIdle EXCEPT !.researcher_id = researcher_id,
                                             !.resp = Response(500, 0, 0, 0, 0)]
                 /\ UNCHANGED <<twitter_api, transport>>
            ELSE /\ twitter_api' = api
                 /\ transport' = Transported(transport, sent, platform)
                 /\ hist' = IF tweets = <<>>
                            THEN [HistIdle EXCEPT !.researcher_id = researcher_id,
                                                  !.resp = Response(200, 0, 0, 0, 0)]
                            ELSE [HistIdle EXCEPT !.researcher_id = researcher_id,
                                                  !.pc = "select", !.tweets = tweets,
                                                  !.likes_count = likes]
    /\ UNCHANGED <<clientVars, aloneVars, envVars, settingsVars, sqlite_sequence, toggle, platform, dbVars, running, workerVars, spc, fetch, test>>

\* Lines 1569-1574: SELECT id FROM x_content WHERE tweet_id = ?; an existing row
\* counts as a duplicate.
debug_fetch_historical_select ==
    /\ hist.pc = "select"
    /\ hist' = IF UniqueConflict(HistView, hist.tweets[hist.k])
               THEN HistAdvance([hist EXCEPT !.resp.duplicate_count = @ + 1])
               ELSE [hist EXCEPT !.pc = "insert"]
    /\ UNCHANGED <<clientVars, aloneVars, envVars, settingsVars, sqlite_sequence, toggle, twitter_api, platform, transport, dbVars, running,
                   workerVars, spc, fetch, test>>

\* Lines 1580-1595: the plain INSERT INTO x_content, which takes the write lock;
\* a UNIQUE conflict raises IntegrityError, caught and counted in error_count.
debug_fetch_historical_insert ==
    /\ hist.pc = "insert"
    /\ hist' = IF UniqueConflict(HistView, hist.tweets[hist.k])
               THEN HistAdvance([hist EXCEPT !.in_txn = TRUE, !.resp.error_count = @ + 1])
               ELSE HistAdvance([hist EXCEPT
                        !.in_txn = TRUE,
                        !.pending = Append(@, Row(hist.researcher_id, hist.tweets[hist.k],
                                                 hist.likes_count)),
                        !.resp.new_content_count = @ + 1])
    /\ UNCHANGED <<clientVars, aloneVars, envVars, settingsVars, sqlite_sequence, toggle, twitter_api, platform, transport, dbVars, running,
                   workerVars, spc, fetch, test>>

\* Lines 1597-1638: conn.commit() and the response.
debug_fetch_historical_commit ==
    /\ hist.pc = "commit"
    /\ x_content' = x_content \o hist.pending
    /\ hist' = [hist EXCEPT !.pc = "idle", !.pending = <<>>, !.in_txn = FALSE, !.k = 1,
                            !.resp.status = 200, !.resp.total_fetched = Len(hist.tweets)]
    /\ UNCHANGED <<clientVars, aloneVars, envVars, settingsVars, sqlite_sequence, toggle, twitter_api, platform, transport, researchers,
                   monitoring_tasks, running, workerVars, spc, fetch, test>>

\* ------------------------------------------------------------ direct client routes
TestIdle == [pc |-> "idle", op |-> "none", status |-> 0, n |-> 0]

\* A request to test_get_user_tweets_method ("tweets") or update_user_info
\* ("info") arrives.
client_request ==
    /\ test.pc = "idle"
    /\ \E op \in {"tweets", "info"} : test' = [pc |-> op, op |-> op, status |-> 0, n |-> 0]
    /\ UNCHANGED <<clientVars, aloneVars, envVars, settingsVars, sqlite_sequence, toggle, twitter_api, platform, transport, dbVars, running,
                   workerVars, spc, fetch, hist>>

\* test_get_user_tweets_method, lines 278-305: the call and the response, 200
\* with tweets_count or 500 with the exception.
test_get_user_tweets_method ==
    /\ test.pc = "tweets"
    /\ \E timeline \in Timelines :
         LET r == get_user_tweets(TwitterAPI, twitter_api, platform, timeline, test_max_results)
         IN /\ twitter_api' = r.api
            /\ transport' = Transported(transport, r.sent, platform)
            /\ test' = [pc |-> "idle", op |-> test.op,
                        status |-> IF r.exc = "none" THEN 200 ELSE 500,
                        n |-> Len(r.value)]
    /\ UNCHANGED <<clientVars, aloneVars, envVars, settingsVars, sqlite_sequence, toggle, platform, dbVars, running, workerVars, spc, fetch, hist>>

\* update_user_info, lines 1328-1368: get_user_info for a stored researcher; the
\* UPDATE writes followers_count and following_count only.
update_user_info ==
    /\ test.pc = "info"
    /\ LET r == get_user_info(TwitterAPI, twitter_api, platform)
       IN /\ r.value # <<>> => WriteLockFree
          /\ twitter_api' = r.api
          /\ transport' = Transported(transport, r.sent, platform)
          /\ test' = [pc |-> "idle", op |-> test.op,
                      status |-> IF r.exc = "none" THEN 200 ELSE 500,
                      n |-> Len(r.value)]
    /\ UNCHANGED <<clientVars, aloneVars, envVars, settingsVars, sqlite_sequence, toggle, platform, dbVars, running, workerVars, spc, fetch, hist>>

\* The platform changes how it answers: quota exhausted, account protected,
\* handle gone, network down, or back to normal.
platform_change ==
    /\ \E mode \in PlatformModes : mode # platform /\ platform' = mode
    /\ UNCHANGED <<clientVars, aloneVars, envVars, settingsVars, sqlite_sequence, toggle, twitter_api, transport, dbVars, running,
                   workerVars, spc, fetch, hist, test>>

\* ------------------------------------------------------------ the process
\* The process ends while no request is in flight and is started again on the
\* same database file: the module-level initialisation (lines 629-649) builds
\* new objects.  load_sample_data (line 310) finds the sample data marked as
\* loaded and inserts nothing; MonitoringService.__init__ (lines 506-510) sets
\* running to False and reads the stored interval; the daemon thread of the old
\* process is gone, and nothing of the initialisation calls start_monitoring.
restart ==
    /\ \A s \in DOMAIN spc : spc[s] = "idle"
    /\ fetch.pc = "idle"
    /\ WriteLockFree
    /\ \A c \in Setters : setting[c].pc = "idle"
    /\ twitter_api' = IF HasAttrs(TwitterAPI)
                      THEN TwitterAPI_init(TWITTER_BEARER_TOKEN)
                      ELSE BareInstance
    /\ transport' = [invoked |-> FALSE, last |-> "none"]
    /\ running' = FALSE
    /\ current_interval' = get_monitoring_interval
    /\ wpc' = [w \in Workers |-> "unborn"]
    /\ wsnap' = [w \in Workers |-> <<>>]
    /\ wi' = [w \in Workers |-> 0]
    /\ wj' = [w \in Workers |-> 1]
    /\ wcalled' = [w \in Workers |-> 0]
    /\ wlog' = [w \in Workers |-> <<>>]
    /\ wsleep' = [w \in Workers |-> 0]
    /\ UNCHANGED <<clientVars, aloneVars, envVars, system_settings, setting,
                   sqlite_sequence, toggle, platform, dbVars, spc, fetch, hist, test>>

\* ------------------------------------------------------------ specifications
\* The state after the module-level initialisation (lines 629-649) on a fresh
\* database: the sample researchers, none monitored; no worker thread.
Init ==
    /\ TWITTER_BEARER_TOKEN \in BOOLEAN
    /\ TwitterAPI \in {ClassBuilt, ClassDocumented}
    /\ twitter_api = IF HasAttrs(TwitterAPI)
                     THEN TwitterAPI_init(TWITTER_BEARER_TOKEN)
                     ELSE BareInstance
    /\ platform = "ok"
    /\ transport = [invoked |-> FALSE, last |-> "none"]
    /\ researchers = [id \in Ids |-> [is_monitoring |-> FALSE, sample |-> id \in SampleIds]]
    /\ sqlite_sequence = NumAccounts
    /\ x_content = <<>>
    /\ monitoring_tasks = [id \in Ids |-> [active |-> 0, inactive |-> 0]]
    /\ running = FALSE
    /\ wpc = [w \in Workers |-> "unborn"]
    /\ wsnap = [w \in Workers |-> <<>>]
    /\ wi = [w \in Workers |-> 0]
    /\ wj = [w \in Workers |-> 1]
    /\ wcalled = [w \in Workers |-> 0]
    /\ wlog = [w \in Workers |-> <<>>]
    /\ spc = [s \in Starters \cup {Caller} |-> "idle"]
    /\ toggle = ToggleIdle
    /\ fetch = FetchIdle
    /\ hist = HistIdle
    /\ likes = 0
    /\ storage = "ok"
    /\ system_settings = Str(default_interval)
    /\ current_interval = default_interval
    /\ setting = SettingIdle
    /\ wsleep = [w \in Workers |-> 0]
    /\ call = CallIdle
    /\ imp = ImpIdle
    /\ ing = IngIdle
    /\ test = TestIdle
    /\ part = PartIdle

Worker(w) ==
    \/ monitoring_loop(w)
    \/ check_researchers_batch(w)
    \/ process_researcher(w)
    \/ batch_sleep(w)

Scheduler ==
    \/ \E s \in Starters : start_monitoring_route(s)
    \/ \E s \in Starters : start_monitoring_test(s)
    \/ \E s \in Starters : start_monitoring_spawn(s)
    \/ \E s \in Starters : stop_monitoring_route(s)

Researchers ==
    \/ delete_researcher
    \/ reset_sample_data
    \/ upload_excel

FetchNow ==
    \/ fetch_researcher_lookup
    \/ fetch_researcher_content

Historical ==
    \/ debug_fetch_historical_start
    \/ debug_fetch_historical_select
    \/ debug_fetch_historical_insert
    \/ debug_fetch_historical_commit

ClientRoutes ==
    \/ client_request
    \/ test_get_user_tweets_method
    \/ update_user_info

Next ==
    \/ \E w \in Workers : Worker(w)
    \/ Scheduler
    \/ FetchNow
    \/ Historical
    \/ ClientRoutes
    \/ Researchers
    \/ platform_change

Spec == Init /\ [][Next]_vars

\* The state after one start_monitoring_route request for every researcher has
\* completed and started the worker: the ingestion paths run from here.
InitIngest ==
    /\ TWITTER_BEARER_TOKEN \in BOOLEAN
    /\ TwitterAPI \in {ClassBuilt, ClassDocumented}
    /\ twitter_api = IF HasAttrs(TwitterAPI)
                     THEN TwitterAPI_init(TWITTER_BEARER_TOKEN)
                     ELSE BareInstance
    /\ platform = "ok"
    /\ transport = [invoked |-> FALSE, last |-> "none"]
    /\ researchers = [id \in Ids |-> [is_monitoring |-> TRUE, sample |-> id \in SampleIds]]
    /\ sqlite_sequence = NumAccounts
    /\ x_content = <<>>
    /\ monitoring_tasks = [id \in Ids |-> [active |-> 1, inactive |-> 0]]
    /\ running = TRUE
    /\ wpc = [w \in Workers |-> IF w = 1 THEN "while" ELSE "unborn"]
    /\ wsnap = [w \in Workers |-> <<>>]
    /\ wi = [w \in Workers |-> 0]
    /\ wj = [w \in Workers |-> 1]
    /\ wcalled = [w \in Workers |-> 0]
    /\ wlog = [w \in Workers |-> <<>>]
    /\ spc = [s \in Starters \cup {Caller} |-> "idle"]
    /\ toggle = ToggleIdle
    /\ fetch = FetchIdle
    /\ hist = HistIdle
    /\ likes = 0
    /\ storage = "ok"
    /\ system_settings = Str(default_interval)
    /\ current_interval = default_interval
    /\ setting = SettingIdle
    /\ wsleep = [w \in Workers |-> 0]
    /\ call = CallIdle
    /\ imp = ImpIdle
    /\ ing = IngIdle
    /\ test = TestIdle
    /\ part = PartIdle

\* The scheduled cycle, fetch-now and the historical backfill.
NextIngest ==
    \/ \E w \in Workers : Worker(w)
    \/ FetchNow
    \/ Historical

SpecIngest == InitIngest /\ [][NextIngest]_vars

\* As InitIngest, with enough monitored researchers for a cycle of two batches.
InitCycle ==
    /\ TWITTER_BEARER_TOKEN \in BOOLEAN
    /\ TwitterAPI \in {ClassBuilt, ClassDocumented}
    /\ twitter_api = IF HasAttrs(TwitterAPI)
                     THEN TwitterAPI_init(TWITTER_BEARER_TOKEN)
                     ELSE BareInstance
    /\ platform = "ok"
    /\ transport = [invoked |-> FALSE, last |-> "none"]
    /\ researchers = [id \in 1..NumCycleAccounts |-> [is_monitoring |-> TRUE, sample |-> id \in SampleIds]]
    /\ sqlite_sequence = NumCycleAccounts
    /\ x_content = <<>>
    /\ monitoring_tasks = [id \in 1..NumCycleAccounts |-> [active |-> 1, inactive |-> 0]]
    /\ running = TRUE
    /\ wpc = [w \in Workers |-> IF w = 1 THEN "while" ELSE "unborn"]
    /\ wsnap = [w \in Workers |-> <<>>]
    /\ wi = [w \in Workers |-> 0]
    /\ wj = [w \in Workers |-> 1]
    /\ wcalled = [w \in Workers |-> 0]
    /\ wlog = [w \in Workers |-> <<>>]
    /\ spc = [s \in Starters \cup {Caller} |-> "idle"]
    /\ toggle = ToggleIdle
    /\ fetch = FetchIdle
    /\ hist = HistIdle
    /\ likes = 0
    /\ storage = "ok"
    /\ system_settings = Str(default_interval)
    /\ current_interval = default_interval
    /\ setting = SettingIdle
    /\ wsleep = [w \in Workers |-> 0]
    /\ call = CallIdle
    /\ imp = ImpIdle
    /\ ing = IngIdle
    /\ test = TestIdle
    /\ part = PartIdle

\* A poll cycle over several batches, with the historical backfill as the other
\* writer of the store.
NextCycle ==
    \/ \E w \in Workers : Worker(w)
    \/ Historical

SpecCycle == InitCycle /\ [][NextCycle]_vars

\* The batch loop alone, over every snapshot and batch size within the bounds.
InitBatch ==
    /\ TWITTER_BEARER_TOKEN = FALSE
    /\ TwitterAPI = ClassBuilt
    /\ twitter_api = BareInstance
    /\ platform = "ok"
    /\ transport = [invoked |-> FALSE, last |-> "none"]
    /\ researchers = [id \in Ids |-> [is_monitoring |-> FALSE, sample |-> id \in SampleIds]]
    /\ sqlite_sequence = NumAccounts
    /\ x_content = <<>>
    /\ monitoring_tasks = [id \in Ids |-> [active |-> 0, inactive |-> 0]]
    /\ running = FALSE
    /\ wpc = [w \in Workers |-> "unborn"]
    /\ wsnap = [w \in Workers |-> <<>>]
    /\ wi = [w \in Workers |-> 0]
    /\ wj = [w \in Workers |-> 1]
    /\ wcalled = [w \in Workers |-> 0]
    /\ wlog = [w \in Workers |-> <<>>]
    /\ spc = [s \in Starters \cup {Caller} |-> "idle"]
    /\ toggle = ToggleIdle
    /\ fetch = FetchIdle
    /\ hist = HistIdle
    /\ likes = 0
    /\ storage = "ok"
    /\ system_settings = Str(default_interval)
    /\ current_interval = default_interval
    /\ setting = SettingIdle
    /\ wsleep = [w \in Workers |-> 0]
    /\ call = CallIdle
    /\ imp = ImpIdle
    /\ ing = IngIdle
    /\ test = TestIdle
    /\ \E S \in SUBSET (1..MaxSnapshot), size \in 1..MaxBatchSize :
          part = [researchers |-> Ascending(S), batch_size |-> size, i |-> 0, batches |-> <<>>]

SpecBatch == InitBatch /\ [][check_researchers_range]_vars

\* A database with the sample researchers and imported ones, monitoring not yet
\* requested for anyone, the service started; requests can also name the ids
\* AUTOINCREMENT has yet to issue.
InitData ==
    /\ TWITTER_BEARER_TOKEN = FALSE
    /\ TwitterAPI = ClassBuilt
    /\ twitter_api = BareInstance
    /\ platform = "ok"
    /\ transport = [invoked |-> FALSE, last |-> "none"]
    /\ researchers = [id \in Ids |-> [is_monitoring |-> FALSE, sample |-> id \in SampleIds]]
    /\ sqlite_sequence = NumAccounts
    /\ x_content = <<>>
    /\ monitoring_tasks = [id \in 1..MaxId |-> [active |-> 0, inactive |-> 0]]
    /\ running = TRUE
    /\ wpc = [w \in Workers |-> IF w = 1 THEN "while" ELSE "unborn"]
    /\ wsnap = [w \in Workers |-> <<>>]
    /\ wi = [w \in Workers |-> 0]
    /\ wj = [w \in Workers |-> 1]
    /\ wcalled = [w \in Workers |-> 0]
    /\ wlog = [w \in Workers |-> <<>>]
    /\ spc = [s \in Starters \cup {Caller} |-> "idle"]
    /\ toggle = ToggleIdle
    /\ fetch = FetchIdle
    /\ hist = HistIdle
    /\ likes = 0
    /\ storage = "ok"
    /\ system_settings = Str(default_interval)
    /\ current_interval = default_interval
    /\ setting = SettingIdle
    /\ wsleep = [w \in Workers |-> 0]
    /\ call = CallIdle
    /\ imp = ImpIdle
    /\ ing = IngIdle
    /\ test = TestIdle
    /\ part = PartIdle

\* The observed caller's monitoring toggles, and the removal and the import of
\* researchers.
NextData ==
    \/ start_monitoring_route(Caller)
    \/ start_monitoring_test(Caller)
    \/ stop_monitoring_route(Caller)
    \/ Researchers

SpecData == InitData /\ [][NextData]_vars

\* Requests that start and stop the monitoring of researchers, and the process
\* ended and started again between them.
NextRestart ==
    \/ Scheduler
    \/ restart

SpecRestart == Init /\ [][NextRestart]_vars

\* The cycle's iteration for researcher 1 and a fetch-now request, each with the
\* tweets its client call returned, about to insert them.
InitRace ==
    /\ TWITTER_BEARER_TOKEN = FALSE
    /\ TwitterAPI = ClassBuilt
    /\ twitter_api = BareInstance
    /\ platform = "ok"
    /\ transport = [invoked |-> FALSE, last |-> "none"]
    /\ researchers = [id \in Ids |-> [is_monitoring |-> FALSE, sample |-> id \in SampleIds]]
    /\ sqlite_sequence = NumAccounts
    /\ x_content \in {<<>>, <<Row(1, 1, 0)>>}
    /\ monitoring_tasks = [id \in 1..MaxId |-> [active |-> 0, inactive |-> 0]]
    /\ running = TRUE
    /\ wpc = [w \in Workers |-> IF w = 1 THEN "while" ELSE "unborn"]
    /\ wsnap = [w \in Workers |-> <<>>]
    /\ wi = [w \in Workers |-> 0]
    /\ wj = [w \in Workers |-> 1]
    /\ wcalled = [w \in Workers |-> 0]
    /\ wlog = [w \in Workers |-> <<>>]
    /\ spc = [s \in Starters \cup {Caller} |-> "idle"]
    /\ toggle = ToggleIdle
    /\ fetch = FetchIdle
    /\ hist = HistIdle
    /\ likes = 0
    /\ storage = "ok"
    /\ system_settings = Str(default_interval)
    /\ current_interval = default_interval
    /\ setting = SettingIdle
    /\ wsleep = [w \in Workers |-> 0]
    /\ call = CallIdle
    /\ imp = ImpIdle
    /\ \E tc \in Timelines \ {<<>>}, tf \in Timelines \ {<<>>}, rf \in Ids :
         ing = [IngIdle EXCEPT
                   !.before = Len(x_content),
                   !.p = [who \in Ingesters |->
                            [pc |-> "insert",
                             researcher_id |-> IF who = "cycle" THEN 1 ELSE rf,
                             tweets |-> IF who = "cycle" THEN tc ELSE tf,
                             k |-> 1, counted |-> <<>>]]]
    /\ test = TestIdle
    /\ part = PartIdle

NextRace ==
    \/ \E who \in Ingesters : ingest_insert(who)
    \/ \E who \in Ingesters : ingest_commit(who)
    \/ \E who \in Ingesters : ingest_locked(who)

SpecRace == InitRace /\ [][NextRace]_vars

\* The same database with monitoring on and an active task for every researcher:
\* fetch-now as the writer of posts, and the removal and the import of
\* researchers.
InitPosts ==
    /\ TWITTER_BEARER_TOKEN \in BOOLEAN
    /\ TwitterAPI \in {ClassBuilt, ClassDocumented}
    /\ twitter_api = IF HasAttrs(TwitterAPI)
                     THEN TwitterAPI_init(TWITTER_BEARER_TOKEN)
                     ELSE BareInstance
    /\ platform = "ok"
    /\ transport = [invoked |-> FALSE, last |-> "none"]
    /\ researchers = [id \in Ids |-> [is_monitoring |-> TRUE, sample |-> id \in SampleIds]]
    /\ sqlite_sequence = NumAccounts
    /\ x_content = <<>>
    /\ monitoring_tasks = [id \in 1..MaxId |->
                            [active |-> IF id \in Ids THEN 1 ELSE 0, inactive |-> 0]]
    /\ running = TRUE
    /\ wpc = [w \in Workers |-> IF w = 1 THEN "while" ELSE "unborn"]
    /\ wsnap = [w \in Workers |-> <<>>]
    /\ wi = [w \in Workers |-> 0]
    /\ wj = [w \in Workers |-> 1]
    /\ wcalled = [w \in Workers |-> 0]
    /\ wlog = [w \in Workers |-> <<>>]
    /\ spc = [s \in Starters \cup {Caller} |-> "idle"]
    /\ toggle = ToggleIdle
    /\ fetch = FetchIdle
    /\ hist = HistIdle
    /\ likes = 0
    /\ storage = "ok"
    /\ system_settings = Str(default_interval)
    /\ current_interval = default_interval
    /\ setting = SettingIdle
    /\ wsleep = [w \in Workers |-> 0]
    /\ call = CallIdle
    /\ imp = ImpIdle
    /\ ing = IngIdle
    /\ test = TestIdle
    /\ part = PartIdle

NextPosts ==
    \/ FetchNow
    \/ Researchers

SpecPosts == InitPosts /\ [][NextPosts]_vars

\* The client object under direct calls, with the platform changing its answers.
\* A running worker in a cycle of several batches while the database file comes
\* and goes.  The thread is scheduled again and again, and time.sleep returns.
NextBackoff ==
    \/ \E w \in Workers : Worker(w)
    \/ storage_change

SpecBackoff == InitCycle /\ [][NextBackoff]_vars /\ \A w \in Workers : WF_vars(Worker(w))

\* A running worker in cycles of several batches while the platform changes its
\* answers.  The thread is scheduled again and again, every client call returns
\* or raises, and time.sleep returns.
NextPoll ==
    \/ \E w \in Workers : Worker(w)
    \/ platform_change

SpecPoll == InitCycle /\ [][NextPoll]_vars /\ \A w \in Workers : WF_vars(Worker(w))

\* A running worker in a cycle of several batches while one client writes the
\* monitoring interval again and again.
NextInterval ==
    \/ \E w \in Workers : Worker(w)
    \/ update_monitoring_settings(1)
    \/ update_monitoring_interval(1)
    \/ update_current_interval(1)

SpecInterval == InitCycle /\ [][NextInterval]_vars

\* Fetch-now (the insert loop it shares with the cycle) and the historical
\* backfill as writers of posts while the platform's metrics change.
NextFrame ==
    \/ FetchNow
    \/ Historical
    \/ platform_like

SpecFrame == InitPosts /\ [][NextFrame]_vars

\* The row loop of upload_excel over every sheet within the bounds.
InitImport ==
    /\ TWITTER_BEARER_TOKEN = FALSE
    /\ TwitterAPI = ClassBuilt
    /\ twitter_api = IF HasAttrs(TwitterAPI)
                     THEN TwitterAPI_init(TWITTER_BEARER_TOKEN)
                     ELSE BareInstance
    /\ platform = "ok"
    /\ transport = [invoked |-> FALSE, last |-> "none"]
    /\ researchers = [id \in Ids |-> [is_monitoring |-> FALSE, sample |-> id \in SampleIds]]
    /\ sqlite_sequence = NumAccounts
    /\ x_content = <<>>
    /\ monitoring_tasks = [id \in Ids |-> [active |-> 0, inactive |-> 0]]
    /\ running = FALSE
    /\ wpc = [w \in Workers |-> "unborn"]
    /\ wsnap = [w \in Workers |-> <<>>]
    /\ wi = [w \in Workers |-> 0]
    /\ wj = [w \in Workers |-> 1]
    /\ wcalled = [w \in Workers |-> 0]
    /\ wlog = [w \in Workers |-> <<>>]
    /\ spc = [s \in Starters \cup {Caller} |-> "idle"]
    /\ toggle = ToggleIdle
    /\ fetch = FetchIdle
    /\ hist = HistIdle
    /\ likes = 0
    /\ storage = "ok"
    /\ system_settings = Str(default_interval)
    /\ current_interval = default_interval
    /\ setting = SettingIdle
    /\ wsleep = [w \in Workers |-> 0]
    /\ call = CallIdle
    /\ imp \in {[ImpIdle EXCEPT !.pc = "rows", !.sheet = sheet] : sheet \in Sheets}
    /\ ing = IngIdle
    /\ test = TestIdle
    /\ part = PartIdle

NextImport ==
    \/ upload_excel_row
    \/ upload_excel_commit

SpecImport == InitImport /\ [][NextImport]_vars

\* get_user_tweets called once, for every argument, client and platform answer.
InitCall ==
    /\ TWITTER_BEARER_TOKEN \in BOOLEAN
    /\ TwitterAPI \in {ClassBuilt, ClassDocumented}
    /\ twitter_api = IF HasAttrs(TwitterAPI)
                     THEN TwitterAPI_init(TWITTER_BEARER_TOKEN)
                     ELSE BareInstance
    /\ platform \in PlatformModes
    /\ transport = [invoked |-> FALSE, last |-> "none"]
    /\ researchers = [id \in Ids |-> [is_monitoring |-> FALSE, sample |-> id \in SampleIds]]
    /\ sqlite_sequence = NumAccounts
    /\ x_content = <<>>
    /\ monitoring_tasks = [id \in Ids |-> [active |-> 0, inactive |-> 0]]
    /\ running = FALSE
    /\ wpc = [w \in Workers |-> "unborn"]
    /\ wsnap = [w \in Workers |-> <<>>]
    /\ wi = [w \in Workers |-> 0]
    /\ wj = [w \in Workers |-> 1]
    /\ wcalled = [w \in Workers |-> 0]
    /\ wlog = [w \in Workers |-> <<>>]
    /\ spc = [s \in Starters \cup {Caller} |-> "idle"]
    /\ toggle = ToggleIdle
    /\ fetch = FetchIdle
    /\ hist = HistIdle
    /\ likes = 0
    /\ storage = "ok"
    /\ system_settings = Str(default_interval)
    /\ current_interval = default_interval
    /\ setting = SettingIdle
    /\ wsleep = [w \in Workers |-> 0]
    /\ call \in {[CallIdle EXCEPT !.pc = "ready", !.max_results = m, !.window = w,
                                  !.timeline = t] :
                    m \in MaxResultsInputs, w \in Windows, t \in Timelines}
    /\ imp = ImpIdle
    /\ ing = IngIdle
    /\ test = TestIdle
    /\ part = PartIdle

SpecCall == InitCall /\ [][get_user_tweets_call]_vars

\* Concurrent writes of the monitoring interval.
Settings ==
    \/ \E c \in Setters : update_monitoring_settings(c)
    \/ \E c \in Setters : update_monitoring_interval(c)
    \/ \E c \in Setters : update_current_interval(c)

NextSettings ==
    \/ Settings
    \/ storage_change

SpecSettings == Init /\ [][NextSettings]_vars

NextClient ==
    \/ ClientRoutes
    \/ platform_change

SpecClient == Init /\ [][NextClient]_vars

\* The scheduler: the monitoring routes and the worker threads.
NextSched ==
    \/ \E w \in Workers : Worker(w)
    \/ Scheduler

SpecSched == Init /\ [][NextSched]_vars

\* MonitoringScheduler.stop() of the design (section 4.3): clears the running
\* flag.  The source defines no operation that clears it.
stop ==
    /\ running
    /\ running' = FALSE
    /\ UNCHANGED <<clientVars, aloneVars, envVars, settingsVars, sqlite_sequence, toggle, twitter_api, platform, transport, dbVars,
                   workerVars, spc, fetch, hist, test>>

\* A running worker in a cycle of several batches, and the stop.
NextStop ==
    \/ \E w \in Workers : Worker(w)
    \/ stop

SpecStop == InitCycle /\ [][NextStop]_vars

\* ============================================================ claims
HasPost(rows, tweet_id) == \E i \in DOMAIN rows : rows[i].tweet_id = tweet_id

PostCount(rows, tweet_id) == Cardinality({i \in DOMAIN rows : rows[i].tweet_id = tweet_id})

LiveWorkers == {w \in Workers : wpc[w] \notin {"unborn", "exited"}}

\* A step in which test_get_user_tweets_method made its get_user_tweets call.
TweetsCallStep == test.pc = "tweets" /\ test'.pc = "idle"

\* A step in which fetch_researcher_content answered 200.
FetchAnswered == fetch.pc = "call" /\ fetch'.pc = "idle" /\ fetch'.resp.status = 200

\* A step in which worker w called the client.
WorkerCalled(w) == wpc[w] = "process" /\ (wpc'[w] # "process" \/ wj'[w] # wj[w])

\* C1: in every reachable state, under any interleaving of scheduled cycles,
\* fetch-now requests and historical backfills, no two rows of x_content have
\* the same tweet_id.
C1_UniqueTweetId ==
    \A i \in DOMAIN x_content : \A j \in DOMAIN x_content :
        i # j => x_content[i].tweet_id # x_content[j].tweet_id

\* C1 witness: two posts are stored, and both fetch-now and the historical
\* backfill have observed a post that was stored already.
C1_Witness ==
    /\ Len(x_content) >= 2
    /\ fetch.resp.total_fetched > fetch.resp.new_content_count
    /\ hist.resp.duplicate_count > 0

\* C2: ingesting a post whose tweet_id is already stored adds no row and does
\* not count it as new: every step keeps the stored rows and adds rows only for
\* ids not stored before, and a fetch-now reports as new exactly the fetched
\* posts that were not stored before, each of which is then stored once.
C2_ReingestAddsNothing ==
    [][ /\ \A i \in DOMAIN x_content :
             i \in DOMAIN x_content' /\ x_content'[i] = x_content[i]
        /\ \A i \in DOMAIN x_content' :
             i > Len(x_content) => ~HasPost(x_content, x_content'[i].tweet_id)
        /\ FetchAnswered =>
             /\ fetch'.resp.new_content_count =
                  Cardinality({k \in DOMAIN fetch'.tweets : ~HasPost(x_content, fetch'.tweets[k])})
             /\ \A k \in DOMAIN fetch'.tweets : PostCount(x_content', fetch'.tweets[k]) = 1
      ]_vars

\* C2 witness: a fetch-now has fetched posts that were all stored already and
\* reported none of them as new.
C2_Witness ==
    /\ fetch.pc = "idle"
    /\ fetch.resp.status = 200
    /\ fetch.resp.total_fetched > 0
    /\ fetch.resp.new_content_count = 0
    /\ \A k \in DOMAIN fetch.tweets : PostCount(x_content, fetch.tweets[k]) = 1

C4_GetUserTweetsNeverRaises ==
    [][ TweetsCallStep =>
            /\ test'.status = 200
            /\ platform # "ok" => test'.n = 0 ]_vars

\* C5: with no credential configured at startup, every get_user_tweets call on
\* the process-wide client returns an empty sequence without raising and
\* without invoking the transport.
C5_NoCredentialReturnsEmpty ==
    [][ (TweetsCallStep /\ ~TWITTER_BEARER_TOKEN) =>
            /\ test'.status = 200
            /\ test'.n = 0
            /\ ~transport'.invoked ]_vars

\* The client states of the design: Ready is a configured client with
\* api_working set, RateLimited one with api_working cleared.
Ready == HasAttrs(TwitterAPI) /\ twitter_api.client = "Client" /\ twitter_api.api_working

RateLimited ==
    /\ HasAttrs(TwitterAPI)
    /\ twitter_api.client = "Client"
    /\ twitter_api.connection_tested
    /\ ~twitter_api.api_working
    /\ transport.last = "TooManyRequests"

C8_AtMostOneWorker == Cardinality(LiveWorkers) <= 1

\* C9: once the running flag is cleared, the worker observes it at the next
\* sleep boundary, inter-batch or inter-cycle: a worker that leaves a sleep
\* with the flag cleared processes no further batch and starts no further cycle.
C9_StopObservedAtSleep ==
    [][ \A w \in Workers :
          ( /\ ~running
            /\ wpc[w] \in {"batch_sleep", "cycle_sleep"}
            /\ wpc'[w] # wpc[w] ) => wpc'[w] \notin {"process", "check"} ]_vars

\* C10 as stated: whenever the scheduler calls the client for an account, that
\* account's is_monitoring is true.
C10_CalledOnlyWhileEnabled ==
    [][ \A w \in Workers :
          WorkerCalled(w) => researchers[wcalled'[w]].is_monitoring ]_vars

\* C10 as amended: the scheduler calls the client only for accounts of the
\* cycle's snapshot, and the snapshot holds only accounts whose is_monitoring
\* was true when it was read.
C10_CalledOnlyIfEnabledAtSnapshot ==
    [][ \A w \in Workers :
          /\ (wpc[w] = "check" /\ wpc'[w] # "check") =>
                \A k \in DOMAIN wsnap'[w] : researchers[wsnap'[w][k]].is_monitoring
          /\ WorkerCalled(w) =>
                \E k \in DOMAIN wsnap[w] : wsnap[w][k] = wcalled'[w] ]_vars

\* C10 witness: a worker has called the client for an account of its snapshot
\* while another account, not in the snapshot, is not monitored.
C10_Witness ==
    \E w \in Workers :
        /\ wcalled[w] # 0
        /\ \E id \in DOMAIN researchers :
             /\ ~researchers[id].is_monitoring
             /\ \A k \in DOMAIN wsnap[w] : wsnap[w][k] # id

\* A step in which worker w ends its cycle after the sleep of the last batch.
CycleCompletes(w) == wpc[w] = "batch_sleep" /\ wpc'[w] = "cycle_sleep"

\* The log entry of the iteration worker w ran in this step.
Iteration(w) == wlog'[w][Len(wlog'[w])]

\* C11: if processing one account in a poll cycle raises, in the client call or
\* in a store write, the accounts after it are still processed in that cycle:
\* an iteration is followed by the next account or the batch's sleep, never by
\* the end of the cycle, and a cycle ends with every account of its snapshot
\* processed, in snapshot order.
C11_RaiseDoesNotStopCycle ==
    [][ \A w \in Workers :
          /\ wpc[w] = "process" => wpc'[w] \in {"process", "batch_sleep"}
          /\ CycleCompletes(w) =>
                /\ Len(wlog[w]) = Len(wsnap[w])
                /\ \A k \in DOMAIN wsnap[w] : wlog[w][k].researcher_id = wsnap[w][k] ]_vars

\* C11 witness: a cycle of more than one batch has processed its whole snapshot
\* although the iteration of its first account raised.
C11_Witness ==
    \E w \in Workers :
        /\ wpc[w] = "batch_sleep"
        /\ Len(wsnap[w]) > BatchSize
        /\ Len(wlog[w]) = Len(wsnap[w])
        /\ wlog[w][1].raised # "none"
        /\ \E k \in DOMAIN wlog[w] : wlog[w][k].raised = "none"

C13_RaisedCallChangesNothing ==
    [][ \A w \in Workers :
          (WorkerCalled(w) /\ wlog'[w] # <<>> /\ Iteration(w).raised = "call") =>
              /\ x_content' = x_content
              /\ monitoring_tasks' = monitoring_tasks
              /\ ~Iteration(w).checked ]_vars

\* C13 witness: a cycle has logged an iteration whose client call raised.
C13_Witness ==
    \E w \in Workers : \E k \in DOMAIN wlog[w] :
        /\ wlog[w][k].raised = "call"
        /\ ~wlog[w][k].checked

\* C14: given N accounts in the snapshot and batch size B, the loop forms
\* exactly ceil(N/B) batches, and batch k (counted from 1) holds the accounts at
\* snapshot positions (k-1)*B+1 .. min(k*B, N) in snapshot order, so every
\* snapshot account is in exactly one batch.
C14_BatchPartition ==
    LET N == Len(part.researchers)
        B == part.batch_size
    IN part.i >= N =>
         /\ Len(part.batches) = (N + B - 1) \div B
         /\ \A k \in DOMAIN part.batches :
              part.batches[k] = [j \in 1..(Min(k * B, N) - (k - 1) * B) |->
                                    part.researchers[(k - 1) * B + j]]

\* C14 witness: the loop has finished a snapshot that its batch size does not
\* divide: several batches, the last one partial.
C14_Witness ==
    /\ part.i >= Len(part.researchers)
    /\ Len(part.batches) >= 2
    /\ Len(part.batches[Len(part.batches)]) < part.batch_size
    /\ Len(part.batches[1]) = part.batch_size

\* ------------------------------------------------------------ C15 .. C20
PostsOf(rows, id) == {k \in 1..Len(rows) : rows[k].researcher_id = id}

\* The researchers a step removes.
Removed == DOMAIN researchers \ DOMAIN researchers'

\* The step answers a toggle request of the observed caller that follows its
\* request op.
Answers(before, op) == toggle.op = before /\ toggle'.op = op

C16_RemovalCascades ==
    [][\A id \in Removed :
          /\ PostsOf(x_content', id) = {}
          /\ TaskRows(monitoring_tasks'[id]) = 0]_vars

C18_AtMostOneTask ==
    \A id \in DOMAIN researchers : TaskRows(monitoring_tasks[id]) <= 1

\* C19: a stop request answered with success for an id the caller's preceding
\* request started leaves that researcher with is_monitoring clear and every task
\* row of it inactive.
C19_StartThenStop ==
    [][(Answers("start", "stop") /\ toggle'.status = 200) =>
          \A id \in toggle.researcher_ids \cap toggle'.researcher_ids :
              /\ id \in DOMAIN researchers' => ~researchers'[id].is_monitoring
              /\ monitoring_tasks'[id].active = 0]_vars

\* C19 witness: a stop request has been answered with success for a researcher
\* that had been started more than once: it is not monitored and its task rows,
\* two of them, are inactive.
C19_Witness ==
    /\ toggle.op = "stop"
    /\ toggle.status = 200
    /\ \E id \in toggle.researcher_ids \cap DOMAIN researchers :
         /\ ~researchers[id].is_monitoring
         /\ monitoring_tasks[id] = [active |-> 0, inactive |-> 2]

\* C20: when one element of a start or stop request within the limit of 1000
\* elements fails, the request is still
\* applied and committed for the other ids, and its response reports the failure
\* of that element next to the success of the others.
C20_FailureIsPerId ==
    [][(toggle' # toggle /\ toggle'.bad /\ ~TooMany(toggle'.length)) =>
          /\ toggle'.status = 200
          /\ toggle'.op = "start" => toggle'.failed_ids >= 1
          /\ \A id \in toggle'.researcher_ids \cap DOMAIN researchers' :
                researchers'[id].is_monitoring = (toggle'.op = "start")]_vars

\* ------------------------------------------------------------ C21 .. C30
\* The step on which request c to update_monitoring_settings arrives.
SettingArrives(c) == setting[c].pc = "idle" /\ setting'[c] # setting[c]

\* C23: a write of the monitoring interval with v < 300 or v > 604800 is answered
\* 400 at once and changes neither the stored setting nor
\* monitoring_service.current_interval.
C23_OutOfRangeRejected ==
    [][\A c \in Setters :
          (/\ SettingArrives(c)
           /\ (setting'[c].v < min_interval \/ setting'[c].v > max_interval)) =>
             /\ setting'[c].pc = "idle"
             /\ setting'[c].status = 400
             /\ system_settings' = system_settings
             /\ current_interval' = current_interval]_vars

\* C23 witness: after a write that succeeded, a write above the maximum has been
\* answered 400 and the interval of the earlier write is still in force.
C23_Witness ==
    \E c \in Setters :
        /\ setting[c].pc = "idle"
        /\ setting[c].status = 400
        /\ setting[c].is_int
        /\ setting[c].v > max_interval
        /\ current_interval = 2 * default_interval
        /\ get_monitoring_interval = 2 * default_interval

\* C24: when a write of the monitoring interval with 300 <= v <= 604800 is
\* answered with success and no other write is in progress, the stored setting
\* reads back as v and monitoring_service.current_interval is v.
C24_WriteIsVisible ==
    [][\A c \in Setters :
          (/\ setting[c].pc = "assign"
           /\ setting'[c].status = 200
           /\ \A d \in Setters \ {c} : setting[d].pc = "idle") =>
             /\ IntOf(system_settings') = setting'[c].v
             /\ current_interval' = setting'[c].v]_vars

\* C25: when the snapshot read of a cycle raises, the flag running stays set, the
\* worker sleeps the 60 seconds of the handler and not the monitoring interval,
\* it does not exit, and after the sleep it goes on to attempt another cycle.
C25_CycleFailureBacksOff ==
    /\ [][\A w \in Workers :
             /\ (wpc[w] = "check" /\ wpc'[w] # "check" /\ StorageRaises) =>
                   /\ running'
                   /\ wpc'[w] = "backoff"
                   /\ wsleep'[w] = backoff_seconds
                   /\ wsleep'[w] # current_interval
             /\ (wpc[w] = "backoff" /\ wpc'[w] # "backoff") => wpc'[w] = "check"]_vars
    /\ \A w \in Workers : (wpc[w] = "backoff") ~> (wpc[w] = "check")

\* C25 witness: a worker that has polled an account in an earlier cycle is in the
\* 60 second sleep after a snapshot read that raised.
C25_Witness ==
    \E w \in Workers :
        /\ wpc[w] = "backoff"
        /\ wsleep[w] = backoff_seconds
        /\ wcalled[w] # 0
        /\ running

\* C26: the max_results get_user_tweets sends to the platform is the smaller of
\* the caller's max_results and the ceiling of 50, so it never exceeds the ceiling.
C26_SentCapIsClamped ==
    (call.pc = "done" /\ call.sent) =>
        /\ call.sent_max_results =
              (IF call.max_results <= platform_ceiling THEN call.max_results
               ELSE platform_ceiling)
        /\ call.sent_max_results <= platform_ceiling

\* C26 witness: a call with max_results above the ceiling reached the platform
\* with the ceiling.
C26_Witness ==
    /\ call.pc = "done"
    /\ call.sent
    /\ call.max_results > platform_ceiling
    /\ call.sent_max_results = platform_ceiling

C28_StoredRowsNeverChange ==
    [][\A k \in DOMAIN x_content :
          \E j \in DOMAIN x_content' : x_content'[j] = x_content[k]]_vars

\* C28 witness: fetch-now has read a stored tweet again, for another researcher
\* and with more likes than the stored row has, and added nothing.
C28_Witness ==
    /\ fetch.pc = "idle"
    /\ fetch.resp.status = 200
    /\ fetch.resp.new_content_count = 0
    /\ \E k \in DOMAIN x_content, i \in DOMAIN fetch.tweets :
         /\ x_content[k].tweet_id = fetch.tweets[i]
         /\ x_content[k].researcher_id # fetch.researcher_id
         /\ x_content[k].likes_count < fetch.likes_count

\* A row has an empty name: its cell has no value or nothing but blanks.
EmptyName(cell) == cell = NoneCell \/ Strip(cell) = <<>>

EmptyNames(sheet) == Cardinality({k \in DOMAIN sheet : EmptyName(sheet[k])})

\* C29: an import of n data rows of which k have an empty name answers
\* imported = n - k and skipped = k, and adds exactly the n - k researchers that
\* have a name.
C29_ImportCounts ==
    imp.pc = "done" =>
        /\ imp.imported = Len(imp.sheet) - EmptyNames(imp.sheet)
        /\ imp.skipped = EmptyNames(imp.sheet)
        /\ Len(imp.names) = Len(imp.sheet) - EmptyNames(imp.sheet)
        /\ \A i \in DOMAIN imp.names : imp.names[i] # <<>>

C22_OversizedRejected ==
    [][(toggle' # toggle /\ toggle'.length > max_researcher_ids) =>
          /\ toggle'.status = 400
          /\ researchers' = researchers
          /\ monitoring_tasks' = monitoring_tasks
          /\ spc' = spc
          /\ running' = running]_vars

\* C22 witness: a start request of 1001 elements has been answered 400 while a
\* researcher is monitored through an earlier request, and the caller is idle.
C22_Witness ==
    /\ toggle.op = "start"
    /\ toggle.length = max_researcher_ids + 1
    /\ toggle.status = 400
    /\ spc[Caller] = "idle"
    /\ \E id \in DOMAIN researchers : researchers[id].is_monitoring
    /\ \E id \in toggle.researcher_ids \cap DOMAIN researchers :
         ~researchers[id].is_monitoring

\* The researchers with is_monitoring = 1 in the current state.
Enabled == {id \in DOMAIN researchers : researchers[id].is_monitoring}

\* The researchers of worker w's snapshot, and those its cycle has processed.
InSnapshot(w) == {wsnap[w][k] : k \in DOMAIN wsnap[w]}

Processed(w) == {wlog[w][k].researcher_id : k \in DOMAIN wlog[w]}

\* C30: the snapshot a cycle reads holds exactly the researchers whose
\* is_monitoring is 1 at that moment; the snapshot changes on no other step, so a
\* toggle after it reaches the next cycle only; and a cycle that ends has
\* processed exactly the researchers of its snapshot, each once.
C30_CycleProcessesSnapshot ==
    [][\A w \in Workers :
          /\ (wpc[w] = "check" /\ wpc'[w] \in {"process", "cycle_sleep"}) =>
                /\ InSnapshot(w)' = Enabled
                /\ Len(wsnap'[w]) = Cardinality(Enabled)
          /\ wsnap'[w] # wsnap[w] => wpc[w] = "check"
          /\ (wpc[w] = "check" /\ wpc'[w] = "cycle_sleep") => Enabled = {}
          /\ CycleCompletes(w) =>
                /\ Processed(w) = InSnapshot(w)
                /\ Len(wlog[w]) = Len(wsnap[w])]_vars

\* C30 witness: a worker has processed its whole snapshot, and since the snapshot
\* one of its researchers was disabled and a researcher outside it was enabled.
C30_Witness ==
    \E w \in Workers :
        /\ wpc[w] = "batch_sleep"
        /\ wsnap[w] # <<>>
        /\ Processed(w) = InSnapshot(w)
        /\ \E id \in InSnapshot(w) \cap DOMAIN researchers : ~researchers[id].is_monitoring
        /\ \E id \in Enabled : id \notin InSnapshot(w)

\* ------------------------------------------------------------ C31 .. C38
\* C33: in every reachable state the stored monitoring interval and
\* monitoring_service.current_interval lie within [300, 604800], from the seeded
\* 1800 on and through every accepted and refused write.
C33_IntervalsInRange ==
    /\ min_interval <= get_monitoring_interval
    /\ get_monitoring_interval <= max_interval
    /\ min_interval <= current_interval
    /\ current_interval <= max_interval

\* C33 witness: one write of the largest interval has been accepted and applied,
\* and a write below the smallest interval has been refused.
C33_Witness ==
    /\ current_interval = max_interval
    /\ get_monitoring_interval = max_interval
    /\ \E c \in Setters : setting[c].pc = "idle" /\ setting[c].status = 200
    /\ \E c \in Setters :
         /\ setting[c].pc = "idle"
         /\ setting[c].status = 400
         /\ setting[c].is_int
         /\ setting[c].v # 0
         /\ setting[c].v < min_interval

\* C36: whenever no write of the monitoring interval is in progress,
\* monitoring_service.current_interval equals the stored setting.
C36_MemoryEqualsStored ==
    (\A c \in Setters : setting[c].pc = "idle") =>
        current_interval = get_monitoring_interval

\* C32: the sleep between two cycles lasts the monitoring interval that is
\* current when the sleep begins, whatever the interval was during the cycle, and
\* a write of the interval during the sleep does not change the sleep under way.
C32_SleepUsesCurrentInterval ==
    [][\A w \in Workers :
          /\ (wpc[w] # "cycle_sleep" /\ wpc'[w] = "cycle_sleep") =>
                wsleep'[w] = current_interval
          /\ (wpc[w] = "cycle_sleep" /\ wpc'[w] = "cycle_sleep") =>
                wsleep'[w] = wsleep[w]]_vars

\* C32 witness: a worker sleeps between two cycles for an interval written after
\* the start of the process, and the interval has been written again since the
\* sleep began.
C32_Witness ==
    \E w \in Workers :
        /\ wpc[w] = "cycle_sleep"
        /\ wsleep[w] = min_interval
        /\ current_interval = max_interval
        /\ setting[1].pc = "idle"

\* A step in which a worker calls the client for researcher id.
Polled(id) == \E w \in Workers : WorkerCalled(w) /\ wcalled'[w] = id

\* C31: while the service is running and every client call returns or raises, a
\* cycle that has read its snapshot reaches the sleep that ends it, the sleep is
\* followed by the next cycle, and a researcher whose is_monitoring stays 1 is
\* called for again and again, whatever the calls for the others did.
C31_EnabledPolledForever ==
    /\ \A w \in Workers : (wpc[w] = "process") ~> (wpc[w] = "cycle_sleep")
    /\ \A w \in Workers : (wpc[w] = "cycle_sleep") ~> (wpc[w] = "check")
    /\ \A id \in 1..NumCycleAccounts :
          \/ <>(~researchers[id].is_monitoring)
          \/ []<><<Polled(id)>>_vars

\* C31 witness: a cycle has gone through its whole snapshot while the platform
\* refuses calls: the call for its first researcher brought nothing, the call
\* for its last one brought tweets, and rows are stored.
C31_Witness ==
    \E w \in Workers :
        /\ running
        /\ wpc[w] = "batch_sleep"
        /\ Len(wlog[w]) = Len(wsnap[w])
        /\ Len(wsnap[w]) = NumCycleAccounts
        /\ wlog[w][1].empty
        /\ ~wlog[w][Len(wlog[w])].empty
        /\ wlog[w][Len(wlog[w])].raised = "none"
        /\ x_content # <<>>
        /\ platform = "TooManyRequests"

\* C34: every researcher_id with an active row in monitoring_tasks is the id of
\* a researcher whose is_monitoring is 1.
C34_ActiveTaskHasEnabledAccount ==
    \A id \in DOMAIN monitoring_tasks :
        monitoring_tasks[id].active > 0 =>
            /\ id \in DOMAIN researchers
            /\ researchers[id].is_monitoring

\* C35: storing a researcher row that is already stored is an upsert: after an
\* import the table holds one researcher for each distinct row imported, so no
\* two of the researchers inserted carry the same row.
C35_ImportIsUpsert ==
    imp.pc = "done" =>
        \A i \in DOMAIN imp.names : \A j \in DOMAIN imp.names :
            imp.names[i] = imp.names[j] => i = j

\* The two insert loops have ended.
BothEnded == \A who \in Ingesters : ing.p[who].pc \in {"done", "failed"}

\* The tweets of the rows added since the loops began.
Added == {x_content[k].tweet_id : k \in (ing.before + 1)..Len(x_content)}

\* C37: when the cycle and a fetch-now request insert tweets at the same time,
\* the two new-content counts sum to the number of rows added, and every tweet
\* added was counted as new by exactly one of the two, once.
C37_CountsSumToRowsAdded ==
    BothEnded =>
        /\ Len(ing.p["cycle"].counted) + Len(ing.p["fetch"].counted)
              = Len(x_content) - ing.before
        /\ \A tweet_id \in TweetIds :
              Cardinality({<<who, k>> \in Ingesters \X (1..NumTweets) :
                              /\ k \in DOMAIN ing.p[who].counted
                              /\ ing.p[who].counted[k] = tweet_id})
                 = IF tweet_id \in Added THEN 1 ELSE 0

\* C37 witness: both loops have committed, the fetch-now request had the tweet
\* of the cycle among its own, and each of them counted one tweet as new.
C37_Witness ==
    /\ \A who \in Ingesters : ing.p[who].pc = "done"
    /\ ing.p["fetch"].tweets = <<2, 1>>
    /\ ing.p["cycle"].tweets = <<1>>
    /\ ing.p["cycle"].counted = <<1>>
    /\ ing.p["fetch"].counted = <<2>>

\* C38: whenever a researcher has is_monitoring = 1 and no start request is in
\* flight, the monitoring service is running; also in the first state of a
\* process started on a database that holds monitored researchers.
C38_EnabledImpliesRunning ==
    (/\ \A s \in DOMAIN spc : spc[s] = "idle"
     /\ \E id \in DOMAIN researchers : researchers[id].is_monitoring) => running

====
